---------------------------- MODULE Spec2Model ----------------------------
(***************************************************************************)
(* Rule matching, scoring, grading, remediation resolution, pricing       *)
(* analysis and the audit run of the actuary-sleuth audit pipeline.        *)
(*                                                                         *)
(* Text is a sequence of characters.  A character of the source that is   *)
(* not a letter of the small test alphabet is written as the token         *)
(* "uXXXX" of its code point; the text it spells is given in the comment   *)
(* in front of the tuple.                                                  *)
(***************************************************************************)
EXTENDS Integers, Sequences, FiniteSets, TLC

VARIABLES
    clauses,      \* check.execute: params['clauses']
    rules,        \* check.execute: the rows of db.get_negative_list()
    checkResult,  \* check.execute: what the call returned or raised
    ckParams,     \* check.execute: whether params holds 'clauses', and a list under it
    ckLoaded,     \* check.execute: whether db.get_negative_list() was called
    scViolations, \* calculate_score: the violations argument
    scPricing,    \* calculate_score: the pricing_analysis argument
    scoredBy,     \* which score calculation ran
    score,        \* its result
    gradedBy,     \* which grade calculation ran
    grade,        \* the grade it returned
    rmViolation,  \* remediation resolvers: the violation argument
    resolvedBy,   \* which resolver ran
    resolved,     \* the string it returned
    prInput,      \* analyze_*: the rate argument
    prType,       \* analyze_*: the product_type argument
    prErr,        \* sign of the floating-point error in the computed deviation
    analyzedBy,   \* which analyzer ran
    prRecord,     \* the record it returned
    auDocument,      \* audit.execute: the blocks of documentContent
    auPricingParams, \* what extract_pricing_params finds in the document
    auProductType,   \* what extract_product_info finds as product_type
    auRules,         \* the rows of negative_list during the audit
    auStep,          \* where execute stands
    auContext,       \* the AuditContext
    auTrace,         \* the steps started so far, in order
    auStderr,        \* what was printed to stderr
    auOutcome,       \* what execute returned or raised
    seParams,        \* scoring.execute: params
    seResult         \* scoring.execute: what the call returned or raised

checkVars == <<clauses, rules, checkResult, ckParams, ckLoaded>>
scoreVars == <<scViolations, scPricing, scoredBy, score, gradedBy, grade>>
remVars == <<rmViolation, resolvedBy, resolved>>
pricingVars == <<prInput, prType, prErr, analyzedBy, prRecord>>
scoringVars == <<seParams, seResult>>
auditVars == <<auDocument, auPricingParams, auProductType, auRules, auStep, auContext,
               auTrace, auStderr, auOutcome>>
vars == <<clauses, rules, checkResult, ckParams, ckLoaded, seParams, seResult, scViolations, scPricing, scoredBy,
          score, gradedBy, grade, rmViolation, resolvedBy, resolved,
          prInput, prType, prErr, analyzedBy, prRecord,
          auDocument, auPricingParams, auProductType, auRules, auStep, auContext,
          auTrace, auStderr, auOutcome>>

\* ------------------------------------------------------------------ bounds

MaxClauses == 2
MaxRules == 2
MaxViolations == 4
GradeSlack == 20
MaxFragments == 2

\* ------------------------------------------------------------- Python text

\* s[:n]
Prefix(s, n) == SubSeq(s, 1, IF Len(s) < n THEN Len(s) ELSE n)

\* `k in t` of two str: k occurs in t as a contiguous run, compared character
\* by character with no case folding; the empty string occurs in every string.
IsSubstring(k, t) ==
    \E i \in 0..(Len(t) - Len(k)) : \A j \in 1..Len(k) : t[i + j] = k[j]

\* --------------------------------------------------------------- check.py

PreviewLen == 100

\* re.compile: the pattern language is literal characters, "." and groups;
\* an unclosed "(" or an unopened ")" is re.error.
RECURSIVE ParenDepth(_, _, _)
ParenDepth(p, i, depth) ==
    IF i > Len(p) THEN depth
    ELSE IF p[i] = "(" THEN ParenDepth(p, i + 1, depth + 1)
    ELSE IF p[i] = ")" THEN
        IF depth = 0 THEN -1 ELSE ParenDepth(p, i + 1, depth - 1)
    ELSE ParenDepth(p, i + 1, depth)

re_malformed(p) == ParenDepth(p, 1, 0) # 0

\* re.search(pattern, clause): "re.error" for a malformed pattern, else whether
\* the pattern matches at some position of the text ("." is any character).
re_search(p, t) ==
    IF re_malformed(p) THEN "re.error"
    ELSE LET q == SelectSeq(p, LAMBDA c : c \notin {"(", ")"})
         IN IF \E i \in 0..(Len(t) - Len(q)) :
                   \A j \in 1..Len(q) : q[j] = "." \/ q[j] = t[i + j]
            THEN "found" ELSE "none"

\* A keywords/patterns column: a list, a JSON string of a list, a JSON string
\* of a number ("jsonint", such as '5'), a string that is no JSON, or NULL.
\* An item of the list is a str or some other value.
Item(s) == [t |-> "str", s |-> s]
NonStr == [t |-> "num", s |-> <<>>]
Field(kind, items) == [kind |-> kind, items |-> items]

\* _parse_json_field returns json.loads(field_value) whatever its type: for a
\* "jsonint" column the value is an int, not a list.
ParsedIsList(field_value) == field_value.kind # "jsonint"

\* _parse_json_field, had it answered NULL and undecodable text with [''].
parse_json_field_defaulting(field_value) ==
    IF field_value.kind = "list" THEN field_value.items
    ELSE IF field_value.kind = "json" THEN field_value.items
    ELSE <<Item(<<>>)>>

\* The elements of the list _parse_json_field returns, when it is one.
parse_json_field(field_value) ==
    IF field_value.kind = "list" THEN field_value.items
    ELSE IF field_value.kind = "json" THEN field_value.items
    ELSE <<>>

\* `if keywords:` lets a non-zero int through and `for keyword in keywords`
\* raises TypeError on it.
IterationRaises(field_value) == ~ParsedIsList(field_value)

\* The keyword loop of match_rule.
RECURSIVE SearchKeywords(_, _, _)
SearchKeywords(keywords, i, clause) ==
    IF i > Len(keywords) THEN FALSE
    ELSE IF keywords[i].t = "str" /\ IsSubstring(keywords[i].s, clause) THEN TRUE
    ELSE SearchKeywords(keywords, i + 1, clause)

\* The pattern loop of match_rule without its try/except: re.error escapes.
RECURSIVE SearchPatternsUncaught(_, _, _)
SearchPatternsUncaught(patterns, i, clause) ==
    IF i > Len(patterns) THEN "nomatch"
    ELSE IF patterns[i].t # "str" THEN SearchPatternsUncaught(patterns, i + 1, clause)
    ELSE LET r == re_search(patterns[i].s, clause)
         IN IF r = "re.error" THEN "error"
            ELSE IF r = "found" THEN "match"
            ELSE SearchPatternsUncaught(patterns, i + 1, clause)

\* The pattern loop of match_rule: a pattern that is re.error is skipped.
RECURSIVE SearchPatterns(_, _, _)
SearchPatterns(patterns, i, clause) ==
    IF i > Len(patterns) THEN "nomatch"
    ELSE IF patterns[i].t # "str" THEN SearchPatterns(patterns, i + 1, clause)
    ELSE LET r == re_search(patterns[i].s, clause)
         IN IF r = "re.error" THEN SearchPatterns(patterns, i + 1, clause)
            ELSE IF r = "found" THEN "match"
            ELSE SearchPatterns(patterns, i + 1, clause)

\* match_rule, had it been given the preview instead of the clause's text.
match_rule_on_preview(clause, rule) ==
    LET shown == Prefix(clause, PreviewLen)
    IN IF SearchKeywords(parse_json_field(rule.keywords), 1, shown) THEN "match"
       ELSE SearchPatterns(parse_json_field(rule.patterns), 1, shown)

\* match_rule, had it stopped at the keyword check.
match_rule_keywords_only(clause, rule) ==
    IF SearchKeywords(parse_json_field(rule.keywords), 1, clause) THEN "match"
    ELSE "nomatch"

\* match_rule with the pattern loop's try/except removed.
match_rule_uncaught(clause, rule) ==
    IF SearchKeywords(parse_json_field(rule.keywords), 1, clause) THEN "match"
    ELSE SearchPatternsUncaught(parse_json_field(rule.patterns), 1, clause)

\* The text of a clause object whose 'text' is None.
NoneText == <<"None">>

\* `keyword in clause` and re.search(pattern, clause) on None: TypeError, at
\* the first str keyword or else at the first pattern that compiles
match_rule_on_none(rule) ==
    LET keywords == parse_json_field(rule.keywords)
        patterns == parse_json_field(rule.patterns)
    IN IF \E i \in 1..Len(keywords) : keywords[i].t = "str" THEN "TypeError"
       ELSE IF IterationRaises(rule.patterns) THEN "TypeError"
       ELSE IF \E i \in 1..Len(patterns) :
                   patterns[i].t = "str" /\ ~re_malformed(patterns[i].s)
       THEN "TypeError"
       ELSE "nomatch"

\* match_rule with both loops guarded by isinstance(value, list).
match_rule_lists_only(clause, rule) ==
    IF clause = NoneText THEN
        IF IterationRaises(rule.keywords) \/ IterationRaises(rule.patterns)
        THEN "nomatch" ELSE match_rule_on_none(rule)
    ELSE IF SearchKeywords(parse_json_field(rule.keywords), 1, clause) THEN "match"
    ELSE SearchPatterns(parse_json_field(rule.patterns), 1, clause)

\* match_rule: "match" for True, "nomatch" for False, "error" and "TypeError"
\* for an exception.
match_rule(clause, rule) ==
    IF IterationRaises(rule.keywords) THEN "TypeError"
    ELSE IF clause = NoneText THEN match_rule_on_none(rule)
    ELSE IF SearchKeywords(parse_json_field(rule.keywords), 1, clause) THEN "match"
    ELSE IF IterationRaises(rule.patterns) THEN "TypeError"
    ELSE SearchPatterns(parse_json_field(rule.patterns), 1, clause)

\* group_by_severity: severity.lower() counted in its bucket, if it has one.
Lower(s) == IF s = "HIGH" THEN "high" ELSE s

RECURSIVE CountSeverity(_, _, _)
CountSeverity(vs, i, sev) ==
    IF i > Len(vs) THEN 0
    ELSE (IF Lower(vs[i].severity) = sev THEN 1 ELSE 0) + CountSeverity(vs, i + 1, sev)

\* A severity that is NULL in negative_list: rule['severity'] is None.
NullSeverity == "null"

\* violation.get('severity', 'low').lower() on None: AttributeError
SeverityRaises(vs) == \E i \in 1..Len(vs) : vs[i].severity = NullSeverity

group_by_severity(vs) ==
    [high |-> CountSeverity(vs, 1, "high"),
     medium |-> CountSeverity(vs, 1, "medium"),
     low |-> CountSeverity(vs, 1, "low")]

\* clause_text[:100] + '...' if len(clause_text) > 100 else clause_text
ClausePreview(text) ==
    IF Len(text) > PreviewLen THEN Prefix(text, PreviewLen) \o <<".", ".", ".">>
    ELSE text

\* The text and the reference execute reads from one entry of the list.
ClauseText(clause) ==
    IF clause.kind = "str" THEN clause.text
    ELSE IF clause.kind = "dictnull" THEN NoneText
    ELSE IF clause.hasText THEN clause.text ELSE <<>>

ClauseReference(clause, idx) ==
    IF clause.kind \in {"dict", "dictnull"} /\ clause.hasRef THEN [given |-> TRUE, n |-> 0]
    ELSE [given |-> FALSE, n |-> idx + 1]

\* The inner loop of execute: one clause against every rule, in rule order.
RECURSIVE ScanRules(_, _, _, _)
ScanRules(clause, idx, rl, j) ==
    IF j > Len(rl) THEN [raised |-> FALSE, out |-> <<>>, error |-> "none"]
    ELSE LET m == match_rule(ClauseText(clause), rl[j])
         IN IF m \in {"error", "TypeError"}
            THEN [raised |-> TRUE, out |-> <<>>,
                  error |-> IF m = "error" THEN "re.error" ELSE m]
            ELSE LET rest == ScanRules(clause, idx, rl, j + 1)
                     hit == IF m = "match"
                            THEN << [clause_index |-> idx,
                                     clause_text |-> ClausePreview(ClauseText(clause)),
                                     clause_reference |-> ClauseReference(clause, idx),
                                     rule |-> rl[j].rule_number,
                                     description |-> rl[j].description,
                                     severity |-> rl[j].severity,
                                     category |-> rl[j].category,
                                     remediation |-> rl[j].remediation] >>
                            ELSE <<>>
                 IN [raised |-> rest.raised, out |-> hit \o rest.out, error |-> rest.error]

\* The variant that puts the violations of a later clause first.
RECURSIVE ScanClausesBackwards(_, _, _)
ScanClausesBackwards(cl, rl, i) ==
    IF i > Len(cl) THEN [raised |-> FALSE, out |-> <<>>, error |-> "none"]
    ELSE IF cl[i].kind \notin {"str", "dict", "dictnull"}
         THEN ScanClausesBackwards(cl, rl, i + 1)
    ELSE LET here == ScanRules(cl[i], i - 1, rl, 1)
         IN IF here.raised THEN here
            ELSE LET rest == ScanClausesBackwards(cl, rl, i + 1)
                 IN [raised |-> rest.raised, out |-> rest.out \o here.out,
                     error |-> rest.error]

\* The outer loop of execute: idx is enumerate's zero-based index; an entry
\* that is neither a str nor a dict is skipped.
RECURSIVE ScanClauses(_, _, _)
ScanClauses(cl, rl, i) ==
    IF i > Len(cl) THEN [raised |-> FALSE, out |-> <<>>, error |-> "none"]
    ELSE IF cl[i].kind \notin {"str", "dict", "dictnull"} THEN ScanClauses(cl, rl, i + 1)
    ELSE LET here == ScanRules(cl[i], i - 1, rl, 1)
         IN IF here.raised THEN here
            ELSE LET rest == ScanClauses(cl, rl, i + 1)
                 IN [raised |-> rest.raised, out |-> here.out \o rest.out,
                     error |-> rest.error]

NoResult == [status |-> "none", violations |-> <<>>, count |-> 0,
             summary |-> [high |-> 0, medium |-> 0, low |-> 0], message |-> "none"]

\* The variant without the early return on an empty rule list.
execute_without_early_return(cl, rl) ==
    LET scan == ScanClauses(cl, rl, 1)
    IN IF scan.raised
       THEN [status |-> "raised", violations |-> <<>>, count |-> 0,
             summary |-> [high |-> 0, medium |-> 0, low |-> 0], message |-> scan.error]
       ELSE [status |-> "ok", violations |-> scan.out, count |-> Len(scan.out),
             summary |-> group_by_severity(scan.out), message |-> "none"]

execute(cl, rl) ==
    IF Len(rl) = 0
    THEN [status |-> "ok", violations |-> <<>>, count |-> 0,
          summary |-> [high |-> 0, medium |-> 0, low |-> 0],
          message |-> "No negative list rules found in database"]
    ELSE LET scan == ScanClauses(cl, rl, 1)
         IN IF scan.raised
            THEN [status |-> "raised", violations |-> <<>>, count |-> 0,
                  summary |-> [high |-> 0, medium |-> 0, low |-> 0], message |-> scan.error]
            ELSE IF SeverityRaises(scan.out)
            THEN [status |-> "raised", violations |-> <<>>, count |-> 0,
                  summary |-> [high |-> 0, medium |-> 0, low |-> 0],
                  message |-> "AttributeError"]
            ELSE [status |-> "ok", violations |-> scan.out, count |-> Len(scan.out),
                  summary |-> group_by_severity(scan.out), message |-> "none"]

\* ------------------------------------------------- the inputs of execute

Filler == [i \in 1..PreviewLen |-> "z"]

TextPool ==
    { <<>>, <<"a", "b">>, <<"A", "b">>, <<"b", "a">>, Filler \o <<"a", "b">> }

ClausePool ==
    { [kind |-> "str", hasText |-> TRUE, text |-> t, hasRef |-> FALSE] : t \in TextPool }
    \cup { [kind |-> "dict", hasText |-> TRUE, text |-> <<"a", "b">>, hasRef |-> TRUE],
           [kind |-> "dict", hasText |-> FALSE, text |-> <<>>, hasRef |-> FALSE],
           [kind |-> "dictnull", hasText |-> TRUE, text |-> <<>>, hasRef |-> FALSE],
           [kind |-> "other", hasText |-> FALSE, text |-> <<>>, hasRef |-> FALSE] }

Null == Field("null", <<>>)

Shape(sev, kw, pat) == [severity |-> sev, keywords |-> kw, patterns |-> pat]

RuleShapes ==
    { Shape("high", Field("list", <<Item(<<"a", "b">>)>>), Field("list", <<>>)),
      Shape("medium", Field("json", <<Item(<<"b">>)>>), Null),
      Shape("low", Field("list", <<NonStr, Item(<<"A", "b">>)>>), Null),
      Shape("high", Field("list", <<>>), Field("list", <<Item(<<"a", ".">>)>>)),
      Shape("medium", Null, Field("json", <<Item(<<"(">>), Item(<<"b", "a">>)>>)),
      Shape("low", Field("list", <<Item(<<"b", "a">>)>>), Field("list", <<Item(<<"(">>)>>)),
      Shape("critical", Field("badjson", <<>>),
            Field("list", <<Item(<<"(", "A", ")", "b">>), Item(<<"b", ")">>), NonStr>>)),
      Shape("high", Field("list", <<>>), Field("list", <<>>)),
      Shape("low", Field("list", <<Item(<<>>)>>), Null),
      Shape("HIGH", Field("list", <<Item(<<"b">>)>>), Null),
      Shape("low", Field("list", <<Item(<<"A">>)>>), Field("jsonint", <<>>)),
      Shape(NullSeverity, Field("list", <<Item(<<"a", "b">>)>>), Null),
      Shape("medium", Field("list", <<Item(<<"z", "a">>)>>),
            Field("list", <<Item(<<")">>), Item(<<"z", ".", "b">>)>>)) }

\* SELECT * FROM negative_list ORDER BY severity DESC: the rows come back in
\* descending order of the severity text.
SeverityRank(sev) ==
    CASE sev = "medium" -> 6 [] sev = "low" -> 5 [] sev = "high" -> 4
      [] sev = "critical" -> 3 [] sev = "HIGH" -> 2 [] OTHER -> 1

RuleLists ==
    UNION { { rl \in [1..n -> RuleShapes] :
                \A j \in 1..(n - 1) :
                    SeverityRank(rl[j].severity) >= SeverityRank(rl[j + 1].severity) }
            : n \in 0..MaxRules }

\* A row of negative_list: rule_number is UNIQUE.
Rule(shape, j) ==
    [rule_number |-> j, description |-> <<"d", "e", "s", "c">>,
     severity |-> shape.severity, category |-> <<"c", "a", "t">>,
     remediation |-> <<>>, keywords |-> shape.keywords, patterns |-> shape.patterns]

ClauseLists == UNION { [1..n -> ClausePool] : n \in 0..MaxClauses }

\* params without 'clauses', with something else than a list under it, or
\* with a list
ParamsKinds == {"missing", "notalist", "list"}

CheckInit ==
    /\ ckParams \in ParamsKinds
    /\ clauses \in IF ckParams = "list" THEN ClauseLists ELSE {<<>>}
    /\ \E rl \in RuleLists : rules = [j \in 1..Len(rl) |-> Rule(rl[j], j)]
    /\ checkResult = NoResult
    /\ ckLoaded = FALSE

CheckIdle ==
    /\ ckParams = "list"
    /\ clauses = <<>>
    /\ rules = <<>>
    /\ checkResult = NoResult
    /\ ckLoaded = FALSE

\* The checks execute makes before it loads the rules
RaisedWith(message) ==
    [status |-> "raised", violations |-> <<>>, count |-> 0,
     summary |-> [high |-> 0, medium |-> 0, low |-> 0], message |-> message]

\* The variant that treats a missing or ill-typed 'clauses' as an empty list.
validate_leniently(kind) == "valid"

\* if 'clauses' not in params: raise ValueError
\* if not isinstance(clauses, list): raise TypeError
validate(kind) ==
    IF kind = "missing" THEN "Missing required parameter: 'clauses'"
    ELSE IF kind = "notalist" THEN "'clauses' must be a list"
    ELSE "valid"

\* check.execute(params)
Execute ==
    /\ checkResult.status = "none"
    /\ IF validate(ckParams) # "valid"
       THEN /\ checkResult' = RaisedWith(validate(ckParams))
            /\ ckLoaded' = FALSE
       ELSE /\ checkResult' = execute(clauses, rules)
            /\ ckLoaded' = TRUE
    /\ UNCHANGED <<clauses, rules, ckParams, scoreVars, remVars, pricingVars, auditVars,
                   scoringVars>>
\* ------------------------------------------- report.py, lib/evaluation.py

Max(a, b) == IF a >= b THEN a ELSE b
Min(a, b) == IF a <= b THEN a ELSE b

Dims == {"mortality", "interest", "expense"}

\* violation.get('severity', 'low')
SeverityOf(violation) == IF violation.hasSeverity THEN violation.severity ELSE "low"

\* The if/elif chain of report.calculate_score, had it ended in a bare else.
ReportPenaltyElseLow(violation) ==
    LET severity == SeverityOf(violation)
    IN IF severity = "high" THEN 20
       ELSE IF severity = "medium" THEN 10
       ELSE 5

\* The if/elif chain of report.calculate_score (and of
\* ReportGenerator._calculate_score, which repeats it).
ReportPenalty(violation) ==
    LET severity == SeverityOf(violation)
    IN IF severity = "high" THEN 20
       ELSE IF severity = "medium" THEN 10
       ELSE IF severity = "low" THEN 5
       ELSE 0

\* SEVERITY_PENALTY.get(severity, 0) of lib/evaluation.py (and of
\* ReportGenerationTemplate, which repeats the table).
SEVERITY_PENALTY == [high |-> 20, medium |-> 10, low |-> 5]

TablePenalty(violation) ==
    LET severity == SeverityOf(violation)
    IN IF severity \in DOMAIN SEVERITY_PENALTY THEN SEVERITY_PENALTY[severity] ELSE 0

RECURSIVE ReportViolationPenalty(_, _)
ReportViolationPenalty(vs, i) ==
    IF i > Len(vs) THEN 0 ELSE ReportPenalty(vs[i]) + ReportViolationPenalty(vs, i + 1)

RECURSIVE TableViolationPenalty(_, _)
TableViolationPenalty(vs, i) ==
    IF i > Len(vs) THEN 0 ELSE TablePenalty(vs[i]) + TableViolationPenalty(vs, i + 1)

\* pricing_analysis.get('pricing', {}).get(category, {}): the analysis of one
\* dimension, "absent" when a dict on the way has no such key.
\* analysis.get('reasonable') is False
IsFalse(pa, d) == ~pa.empty /\ pa.dims[d] = "False"

\* not value.get('reasonable', True)
IsFalsy(pa, d) == ~pa.empty /\ pa.dims[d] \in {"False", "None"}

\* The pricing loop of report.calculate_score, of ReportGenerator._calculate_score
\* and of ReportGenerationTemplate._count_pricing_issues.
CountIsFalse(pa) == Cardinality({d \in Dims : IsFalse(pa, d)})

\* lib/evaluation._count_pricing_issues
count_pricing_issues(pa) ==
    IF pa.empty THEN 0 ELSE Cardinality({d \in Dims : IsFalsy(pa, d)})

PRICING_ISSUE_PENALTY == 10
SCORE_BASE == 100
SCORE_MIN == 0
SCORE_MAX == 100

\* report.calculate_score, had it returned the sum as it stands.
report_calculate_score_unclamped(vs, pa) ==
    100 - ReportViolationPenalty(vs, 1) - 10 * CountIsFalse(pa)

report_calculate_score(vs, pa) ==
    Max(0, Min(100, 100 - ReportViolationPenalty(vs, 1) - 10 * CountIsFalse(pa)))

evaluation_calculate_score(vs, pa) ==
    Max(0, Min(100, SCORE_BASE - TableViolationPenalty(vs, 1)
                      - count_pricing_issues(pa) * PRICING_ISSUE_PENALTY))

\* ReportGenerator._calculate_score
generator_calculate_score(vs, pa) ==
    Max(0, Min(100, 100 - ReportViolationPenalty(vs, 1) - 10 * CountIsFalse(pa)))

\* ReportGenerationTemplate._calculate_score
template_calculate_score(vs, pa) ==
    Max(SCORE_MIN, Min(SCORE_MAX, SCORE_BASE - TableViolationPenalty(vs, 1)
                                    - CountIsFalse(pa) * PRICING_ISSUE_PENALTY))

GradeExcellent == (* 优秀 *) <<"u4f18", "u79c0">>
GradeGood == (* 良好 *) <<"u826f", "u597d">>
GradePass == (* 合格 *) <<"u5408", "u683c">>
GradeFail == (* 不合格 *) <<"u4e0d", "u5408", "u683c">>
NoGrade == <<>>

\* report.calculate_grade with > in place of >=.
report_calculate_grade_strict(s) ==
    IF s > 90 THEN GradeExcellent
    ELSE IF s > 75 THEN GradeGood
    ELSE IF s > 60 THEN GradePass
    ELSE GradeFail

\* report.calculate_grade with the labels of the two middle bands exchanged.
report_calculate_grade_swapped(s) ==
    IF s >= 90 THEN GradeExcellent
    ELSE IF s >= 75 THEN GradePass
    ELSE IF s >= 60 THEN GradeGood
    ELSE GradeFail

\* report.calculate_grade (and ReportGenerator._calculate_grade, which repeats it)
report_calculate_grade(s) ==
    IF s >= 90 THEN GradeExcellent
    ELSE IF s >= 75 THEN GradeGood
    ELSE IF s >= 60 THEN GradePass
    ELSE GradeFail

GRADE_THRESHOLDS ==
    << [threshold |-> 90, grade |-> GradeExcellent],
       [threshold |-> 75, grade |-> GradeGood],
       [threshold |-> 60, grade |-> GradePass] >>
GRADE_DEFAULT == GradeFail

RECURSIVE FirstThreshold(_, _)
FirstThreshold(s, i) ==
    IF i > Len(GRADE_THRESHOLDS) THEN GRADE_DEFAULT
    ELSE IF s >= GRADE_THRESHOLDS[i].threshold THEN GRADE_THRESHOLDS[i].grade
    ELSE FirstThreshold(s, i + 1)

\* lib/evaluation.calculate_grade (and ReportGenerationTemplate._calculate_grade)
evaluation_calculate_grade(s) == FirstThreshold(s, 1)

\* ------------------------------------------ the inputs of calculate_score

ViolationPool ==
    { [hasSeverity |-> TRUE, severity |-> sev] : sev \in {"high", "medium", "low", "critical"} }
    \cup { [hasSeverity |-> FALSE, severity |-> "none"] }

ViolationLists == UNION { [1..n -> ViolationPool] : n \in 0..MaxViolations }

\* What scoring.execute puts in each dimension's 'reasonable', and a
\* pricing_analysis with a dimension left out, or with nothing in it.
PricingPool ==
    { [empty |-> FALSE, dims |-> f] : f \in [Dims -> {"True", "False", "None"}] }
    \cup { [empty |-> FALSE, dims |-> [d \in Dims |-> IF d = a THEN "absent" ELSE "False"]]
           : a \in Dims }
    \cup { [empty |-> FALSE, dims |-> [d \in Dims |-> "absent"]],
           [empty |-> TRUE, dims |-> [d \in Dims |-> "absent"]] }

ScoreInit ==
    /\ scViolations \in ViolationLists
    /\ scPricing \in PricingPool
    /\ scoredBy = "none"
    /\ score = 0
    /\ gradedBy = "none"
    /\ grade = NoGrade

GradeInit ==
    /\ scViolations = <<>>
    /\ scPricing = [empty |-> TRUE, dims |-> [d \in Dims |-> "absent"]]
    /\ scoredBy = "caller"
    /\ score \in (0 - GradeSlack)..(100 + GradeSlack)
    /\ gradedBy = "none"
    /\ grade = NoGrade

ScoreIdle ==
    /\ scViolations = <<>>
    /\ scPricing = [empty |-> TRUE, dims |-> [d \in Dims |-> "absent"]]
    /\ scoredBy = "none"
    /\ score = 0
    /\ gradedBy = "none"
    /\ grade = NoGrade

ReportCalculateScore ==
    /\ scoredBy = "none"
    /\ score' = report_calculate_score(scViolations, scPricing)
    /\ scoredBy' = "report"
    /\ UNCHANGED <<scViolations, scPricing, gradedBy, grade, checkVars, remVars, pricingVars, auditVars, scoringVars>>

EvaluationCalculateScore ==
    /\ scoredBy = "none"
    /\ score' = evaluation_calculate_score(scViolations, scPricing)
    /\ scoredBy' = "evaluation"
    /\ UNCHANGED <<scViolations, scPricing, gradedBy, grade, checkVars, remVars, pricingVars, auditVars, scoringVars>>

GeneratorCalculateScore ==
    /\ scoredBy = "none"
    /\ score' = generator_calculate_score(scViolations, scPricing)
    /\ scoredBy' = "generator"
    /\ UNCHANGED <<scViolations, scPricing, gradedBy, grade, checkVars, remVars, pricingVars, auditVars, scoringVars>>

TemplateCalculateScore ==
    /\ scoredBy = "none"
    /\ score' = template_calculate_score(scViolations, scPricing)
    /\ scoredBy' = "template"
    /\ UNCHANGED <<scViolations, scPricing, gradedBy, grade, checkVars, remVars, pricingVars, auditVars, scoringVars>>

ReportCalculateGrade ==
    /\ scoredBy # "none"
    /\ gradedBy = "none"
    /\ grade' = report_calculate_grade(score)
    /\ gradedBy' = "report"
    /\ UNCHANGED <<scViolations, scPricing, scoredBy, score, checkVars, remVars, pricingVars, auditVars, scoringVars>>

EvaluationCalculateGrade ==
    /\ scoredBy # "none"
    /\ gradedBy = "none"
    /\ grade' = evaluation_calculate_grade(score)
    /\ gradedBy' = "evaluation"
    /\ UNCHANGED <<scViolations, scPricing, scoredBy, score, checkVars, remVars, pricingVars, auditVars, scoringVars>>


\* ------------------------------------------- the three report generators
\* The score and grade fields of the result; given says that the caller put a
\* score in the input (`score is None` is false for it, 0 included).

\* report.execute
report_execute(given, supplied, vs, pa) ==
    LET s == IF given THEN supplied ELSE report_calculate_score(vs, pa)
    IN [score |-> s, grade |-> report_calculate_grade(s)]

\* ReportGenerator.generate
generator_generate(given, supplied, vs, pa) ==
    LET s == IF given THEN supplied ELSE generator_calculate_score(vs, pa)
    IN [score |-> s, grade |-> report_calculate_grade(s)]

\* ReportGenerationTemplate.generate
template_generate(given, supplied, vs, pa) ==
    LET s == IF given THEN Max(SCORE_MIN, Min(SCORE_MAX, supplied))
             ELSE template_calculate_score(vs, pa)
    IN [score |-> s, grade |-> evaluation_calculate_grade(s)]

\* The caller leaves the score out: it is computed from the violations and the
\* pricing analysis.
GenerateComputedInit ==
    /\ scViolations \in ViolationLists
    /\ scPricing \in PricingPool
    /\ scoredBy = "none"
    /\ score = 0
    /\ gradedBy = "none"
    /\ grade = NoGrade

\* The caller supplies the score.
GenerateSuppliedInit ==
    /\ scViolations \in {<<>>} \cup { <<v>> : v \in ViolationPool }
    /\ scPricing \in PricingPool
    /\ scoredBy = "caller"
    /\ score \in (0 - GradeSlack)..(100 + GradeSlack)
    /\ gradedBy = "none"
    /\ grade = NoGrade

ReportExecute ==
    /\ gradedBy = "none"
    /\ LET result == report_execute(scoredBy = "caller", score, scViolations, scPricing)
       IN /\ score' = result.score
          /\ grade' = result.grade
    /\ gradedBy' = "report.execute"
    /\ UNCHANGED <<scViolations, scPricing, scoredBy, checkVars, remVars, pricingVars, auditVars, scoringVars>>

GeneratorGenerate ==
    /\ gradedBy = "none"
    /\ LET result == generator_generate(scoredBy = "caller", score, scViolations, scPricing)
       IN /\ score' = result.score
          /\ grade' = result.grade
    /\ gradedBy' = "ReportGenerator.generate"
    /\ UNCHANGED <<scViolations, scPricing, scoredBy, checkVars, remVars, pricingVars, auditVars, scoringVars>>

TemplateGenerate ==
    /\ gradedBy = "none"
    /\ LET result == template_generate(scoredBy = "caller", score, scViolations, scPricing)
       IN /\ score' = result.score
          /\ grade' = result.grade
    /\ gradedBy' = "ReportGenerationTemplate.generate"
    /\ UNCHANGED <<scViolations, scPricing, scoredBy, checkVars, remVars, pricingVars, auditVars, scoringVars>>
\* ---------------------------------------------- reporting/generator.py

\* The key '_default' of a category's dict.
DefaultKey == (* _default *) <<"u005f", "u0064", "u0065", "u0066", "u0061", "u0075", "u006c", "u0074">>

\* REMEDIATION_PATTERNS, in the order the dict literal lists its keys: each
\* category key with its own dict, again in the order of the literal.
REMEDIATION_PATTERNS ==
    <<
      [category_key |-> (* 等待期 *) <<"u7b49", "u5f85", "u671f">>,
       pattern_dict |-> <<
           [keyword |-> (* 过长 *) <<"u8fc7", "u957f">>,
            remediation |-> (* 将等待期调整为90天以内 *) <<"u5c06", "u7b49", "u5f85", "u671f", "u8c03", "u6574", "u4e3a", "u0039", "u0030", "u5929", "u4ee5", "u5185">>],
           [keyword |-> (* 超过 *) <<"u8d85", "u8fc7">>,
            remediation |-> (* 将等待期调整为90天以内 *) <<"u5c06", "u7b49", "u5f85", "u671f", "u8c03", "u6574", "u4e3a", "u0039", "u0030", "u5929", "u4ee5", "u5185">>],
           [keyword |-> (* 症状 *) <<"u75c7", "u72b6">>,
            remediation |-> (* 删除将等待期内症状或体征作为免责依据的表述 *) <<"u5220", "u9664", "u5c06", "u7b49", "u5f85", "u671f", "u5185", "u75c7", "u72b6", "u6216", "u4f53", "u5f81", "u4f5c", "u4e3a", "u514d", "u8d23", "u4f9d", "u636e", "u7684", "u8868", "u8ff0">>],
           [keyword |-> (* 体征 *) <<"u4f53", "u5f81">>,
            remediation |-> (* 删除将等待期内症状或体征作为免责依据的表述 *) <<"u5220", "u9664", "u5c06", "u7b49", "u5f85", "u671f", "u5185", "u75c7", "u72b6", "u6216", "u4f53", "u5f81", "u4f5c", "u4e3a", "u514d", "u8d23", "u4f9d", "u636e", "u7684", "u8868", "u8ff0">>],
           [keyword |-> (* 突出 *) <<"u7a81", "u51fa">>,
            remediation |-> (* 在条款中以加粗或红色字体突出说明等待期 *) <<"u5728", "u6761", "u6b3e", "u4e2d", "u4ee5", "u52a0", "u7c97", "u6216", "u7ea2", "u8272", "u5b57", "u4f53", "u7a81", "u51fa", "u8bf4", "u660e", "u7b49", "u5f85", "u671f">>],
           [keyword |-> (* _default *) <<"u005f", "u0064", "u0065", "u0066", "u0061", "u0075", "u006c", "u0074">>,
            remediation |-> (* 合理设置等待期长度，确保符合监管规定 *) <<"u5408", "u7406", "u8bbe", "u7f6e", "u7b49", "u5f85", "u671f", "u957f", "u5ea6", "uff0c", "u786e", "u4fdd", "u7b26", "u5408", "u76d1", "u7ba1", "u89c4", "u5b9a">>] >>],
      [category_key |-> (* 免责条款 *) <<"u514d", "u8d23", "u6761", "u6b3e">>,
       pattern_dict |-> <<
           [keyword |-> (* 不集中 *) <<"u4e0d", "u96c6", "u4e2d">>,
            remediation |-> (* 将免责条款集中在合同显著位置 *) <<"u5c06", "u514d", "u8d23", "u6761", "u6b3e", "u96c6", "u4e2d", "u5728", "u5408", "u540c", "u663e", "u8457", "u4f4d", "u7f6e">>],
           [keyword |-> (* 不清晰 *) <<"u4e0d", "u6e05", "u6670">>,
            remediation |-> (* 使用清晰明确的语言表述免责情形 *) <<"u4f7f", "u7528", "u6e05", "u6670", "u660e", "u786e", "u7684", "u8bed", "u8a00", "u8868", "u8ff0", "u514d", "u8d23", "u60c5", "u5f62">>],
           [keyword |-> (* 表述不清 *) <<"u8868", "u8ff0", "u4e0d", "u6e05">>,
            remediation |-> (* 使用清晰明确的语言表述免责情形 *) <<"u4f7f", "u7528", "u6e05", "u6670", "u660e", "u786e", "u7684", "u8bed", "u8a00", "u8868", "u8ff0", "u514d", "u8d23", "u60c5", "u5f62">>],
           [keyword |-> (* 加粗 *) <<"u52a0", "u7c97">>,
            remediation |-> (* 使用加粗或红色字体突出显示免责条款 *) <<"u4f7f", "u7528", "u52a0", "u7c97", "u6216", "u7ea2", "u8272", "u5b57", "u4f53", "u7a81", "u51fa", "u663e", "u793a", "u514d", "u8d23", "u6761", "u6b3e">>],
           [keyword |-> (* 标红 *) <<"u6807", "u7ea2">>,
            remediation |-> (* 使用加粗或红色字体突出显示免责条款 *) <<"u4f7f", "u7528", "u52a0", "u7c97", "u6216", "u7ea2", "u8272", "u5b57", "u4f53", "u7a81", "u51fa", "u663e", "u793a", "u514d", "u8d23", "u6761", "u6b3e">>],
           [keyword |-> (* 突出 *) <<"u7a81", "u51fa">>,
            remediation |-> (* 使用加粗或红色字体突出显示免责条款 *) <<"u4f7f", "u7528", "u52a0", "u7c97", "u6216", "u7ea2", "u8272", "u5b57", "u4f53", "u7a81", "u51fa", "u663e", "u793a", "u514d", "u8d23", "u6761", "u6b3e">>],
           [keyword |-> (* 免除 *) <<"u514d", "u9664">>,
            remediation |-> (* 删除不合理的免责条款，确保不违反保险法规定 *) <<"u5220", "u9664", "u4e0d", "u5408", "u7406", "u7684", "u514d", "u8d23", "u6761", "u6b3e", "uff0c", "u786e", "u4fdd", "u4e0d", "u8fdd", "u53cd", "u4fdd", "u9669", "u6cd5", "u89c4", "u5b9a">>],
           [keyword |-> (* _default *) <<"u005f", "u0064", "u0065", "u0066", "u0061", "u0075", "u006c", "u0074">>,
            remediation |-> (* 完善免责条款的表述和展示方式 *) <<"u5b8c", "u5584", "u514d", "u8d23", "u6761", "u6b3e", "u7684", "u8868", "u8ff0", "u548c", "u5c55", "u793a", "u65b9", "u5f0f">>] >>],
      [category_key |-> (* 责任免除 *) <<"u8d23", "u4efb", "u514d", "u9664">>,
       pattern_dict |-> <<
           [keyword |-> (* _default *) <<"u005f", "u0064", "u0065", "u0066", "u0061", "u0075", "u006c", "u0074">>,
            remediation |-> (* 完善免责条款的表述和展示方式 *) <<"u5b8c", "u5584", "u514d", "u8d23", "u6761", "u6b3e", "u7684", "u8868", "u8ff0", "u548c", "u5c55", "u793a", "u65b9", "u5f0f">>] >>],
      [category_key |-> (* 保险金额 *) <<"u4fdd", "u9669", "u91d1", "u989d">>,
       pattern_dict |-> <<
           [keyword |-> (* 不规范 *) <<"u4e0d", "u89c4", "u8303">>,
            remediation |-> (* 使用规范的保险金额表述，确保与保险法一致 *) <<"u4f7f", "u7528", "u89c4", "u8303", "u7684", "u4fdd", "u9669", "u91d1", "u989d", "u8868", "u8ff0", "uff0c", "u786e", "u4fdd", "u4e0e", "u4fdd", "u9669", "u6cd5", "u4e00", "u81f4">>],
           [keyword |-> (* 不一致 *) <<"u4e0d", "u4e00", "u81f4">>,
            remediation |-> (* 使用规范的保险金额表述，确保与保险法一致 *) <<"u4f7f", "u7528", "u89c4", "u8303", "u7684", "u4fdd", "u9669", "u91d1", "u989d", "u8868", "u8ff0", "uff0c", "u786e", "u4fdd", "u4e0e", "u4fdd", "u9669", "u6cd5", "u4e00", "u81f4">>],
           [keyword |-> (* _default *) <<"u005f", "u0064", "u0065", "u0066", "u0061", "u0075", "u006c", "u0074">>,
            remediation |-> (* 明确保险金额的确定方式和计算标准 *) <<"u660e", "u786e", "u4fdd", "u9669", "u91d1", "u989d", "u7684", "u786e", "u5b9a", "u65b9", "u5f0f", "u548c", "u8ba1", "u7b97", "u6807", "u51c6">>] >>],
      [category_key |-> (* 保证收益 *) <<"u4fdd", "u8bc1", "u6536", "u76ca">>,
       pattern_dict |-> <<
           [keyword |-> (* _default *) <<"u005f", "u0064", "u0065", "u0066", "u0061", "u0075", "u006c", "u0074">>,
            remediation |-> (* 删除保证收益相关表述，改为演示收益或说明利益不确定 *) <<"u5220", "u9664", "u4fdd", "u8bc1", "u6536", "u76ca", "u76f8", "u5173", "u8868", "u8ff0", "uff0c", "u6539", "u4e3a", "u6f14", "u793a", "u6536", "u76ca", "u6216", "u8bf4", "u660e", "u5229", "u76ca", "u4e0d", "u786e", "u5b9a">>] >>],
      [category_key |-> (* 演示收益 *) <<"u6f14", "u793a", "u6536", "u76ca">>,
       pattern_dict |-> <<
           [keyword |-> (* _default *) <<"u005f", "u0064", "u0065", "u0066", "u0061", "u0075", "u006c", "u0074">>,
            remediation |-> (* 删除保证收益相关表述，改为演示收益或说明利益不确定 *) <<"u5220", "u9664", "u4fdd", "u8bc1", "u6536", "u76ca", "u76f8", "u5173", "u8868", "u8ff0", "uff0c", "u6539", "u4e3a", "u6f14", "u793a", "u6536", "u76ca", "u6216", "u8bf4", "u660e", "u5229", "u76ca", "u4e0d", "u786e", "u5b9a">>] >>],
      [category_key |-> (* 费率 *) <<"u8d39", "u7387">>,
       pattern_dict |-> <<
           [keyword |-> (* 倒算 *) <<"u5012", "u7b97">>,
            remediation |-> (* 停止使用倒算方式确定费率，采用精算方法 *) <<"u505c", "u6b62", "u4f7f", "u7528", "u5012", "u7b97", "u65b9", "u5f0f", "u786e", "u5b9a", "u8d39", "u7387", "uff0c", "u91c7", "u7528", "u7cbe", "u7b97", "u65b9", "u6cd5">>],
           [keyword |-> (* 偏离实际 *) <<"u504f", "u79bb", "u5b9e", "u9645">>,
            remediation |-> (* 根据实际费用水平重新核算附加费用率 *) <<"u6839", "u636e", "u5b9e", "u9645", "u8d39", "u7528", "u6c34", "u5e73", "u91cd", "u65b0", "u6838", "u7b97", "u9644", "u52a0", "u8d39", "u7528", "u7387">>],
           [keyword |-> (* 不真实 *) <<"u4e0d", "u771f", "u5b9e">>,
            remediation |-> (* 重新进行费率厘定，确保符合审慎原则 *) <<"u91cd", "u65b0", "u8fdb", "u884c", "u8d39", "u7387", "u5398", "u5b9a", "uff0c", "u786e", "u4fdd", "u7b26", "u5408", "u5ba1", "u614e", "u539f", "u5219">>],
           [keyword |-> (* 不合理 *) <<"u4e0d", "u5408", "u7406">>,
            remediation |-> (* 重新进行费率厘定，确保符合审慎原则 *) <<"u91cd", "u65b0", "u8fdb", "u884c", "u8d39", "u7387", "u5398", "u5b9a", "uff0c", "u786e", "u4fdd", "u7b26", "u5408", "u5ba1", "u614e", "u539f", "u5219">>],
           [keyword |-> (* _default *) <<"u005f", "u0064", "u0065", "u0066", "u0061", "u0075", "u006c", "u0074">>,
            remediation |-> (* 规范费率厘定方法，确保符合监管要求 *) <<"u89c4", "u8303", "u8d39", "u7387", "u5398", "u5b9a", "u65b9", "u6cd5", "uff0c", "u786e", "u4fdd", "u7b26", "u5408", "u76d1", "u7ba1", "u8981", "u6c42">>] >>],
      [category_key |-> (* 现金价值 *) <<"u73b0", "u91d1", "u4ef7", "u503c">>,
       pattern_dict |-> <<
           [keyword |-> (* 超过 *) <<"u8d85", "u8fc7">>,
            remediation |-> (* 调整现金价值计算方法，确保不超过已交保费 *) <<"u8c03", "u6574", "u73b0", "u91d1", "u4ef7", "u503c", "u8ba1", "u7b97", "u65b9", "u6cd5", "uff0c", "u786e", "u4fdd", "u4e0d", "u8d85", "u8fc7", "u5df2", "u4ea4", "u4fdd", "u8d39">>],
           [keyword |-> (* 异化 *) <<"u5f02", "u5316">>,
            remediation |-> (* 调整现金价值计算方法，确保不超过已交保费 *) <<"u8c03", "u6574", "u73b0", "u91d1", "u4ef7", "u503c", "u8ba1", "u7b97", "u65b9", "u6cd5", "uff0c", "u786e", "u4fdd", "u4e0d", "u8d85", "u8fc7", "u5df2", "u4ea4", "u4fdd", "u8d39">>],
           [keyword |-> (* _default *) <<"u005f", "u0064", "u0065", "u0066", "u0061", "u0075", "u006c", "u0074">>,
            remediation |-> (* 规范现金价值计算，确保符合监管规定 *) <<"u89c4", "u8303", "u73b0", "u91d1", "u4ef7", "u503c", "u8ba1", "u7b97", "uff0c", "u786e", "u4fdd", "u7b26", "u5408", "u76d1", "u7ba1", "u89c4", "u5b9a">>] >>],
      [category_key |-> (* 基因 *) <<"u57fa", "u56e0">>,
       pattern_dict |-> <<
           [keyword |-> (* _default *) <<"u005f", "u0064", "u0065", "u0066", "u0061", "u0075", "u006c", "u0074">>,
            remediation |-> (* 删除根据基因检测结果调节费率的约定 *) <<"u5220", "u9664", "u6839", "u636e", "u57fa", "u56e0", "u68c0", "u6d4b", "u7ed3", "u679c", "u8c03", "u8282", "u8d39", "u7387", "u7684", "u7ea6", "u5b9a">>] >>],
      [category_key |-> (* 犹豫期 *) <<"u72b9", "u8c6b", "u671f">>,
       pattern_dict |-> <<
           [keyword |-> (* 过短 *) <<"u8fc7", "u77ed">>,
            remediation |-> (* 将犹豫期调整为15天以上 *) <<"u5c06", "u72b9", "u8c6b", "u671f", "u8c03", "u6574", "u4e3a", "u0031", "u0035", "u5929", "u4ee5", "u4e0a">>],
           [keyword |-> (* 不足 *) <<"u4e0d", "u8db3">>,
            remediation |-> (* 将犹豫期调整为15天以上 *) <<"u5c06", "u72b9", "u8c6b", "u671f", "u8c03", "u6574", "u4e3a", "u0031", "u0035", "u5929", "u4ee5", "u4e0a">>],
           [keyword |-> (* _default *) <<"u005f", "u0064", "u0065", "u0066", "u0061", "u0075", "u006c", "u0074">>,
            remediation |-> (* 规范犹豫期的起算和时长 *) <<"u89c4", "u8303", "u72b9", "u8c6b", "u671f", "u7684", "u8d77", "u7b97", "u548c", "u65f6", "u957f">>] >>],
      [category_key |-> (* 利率 *) <<"u5229", "u7387">>,
       pattern_dict |-> <<
           [keyword |-> (* 超过 *) <<"u8d85", "u8fc7">>,
            remediation |-> (* 将预定利率调整为监管上限以内 *) <<"u5c06", "u9884", "u5b9a", "u5229", "u7387", "u8c03", "u6574", "u4e3a", "u76d1", "u7ba1", "u4e0a", "u9650", "u4ee5", "u5185">>],
           [keyword |-> (* 超标 *) <<"u8d85", "u6807">>,
            remediation |-> (* 将预定利率调整为监管上限以内 *) <<"u5c06", "u9884", "u5b9a", "u5229", "u7387", "u8c03", "u6574", "u4e3a", "u76d1", "u7ba1", "u4e0a", "u9650", "u4ee5", "u5185">>],
           [keyword |-> (* _default *) <<"u005f", "u0064", "u0065", "u0066", "u0061", "u0075", "u006c", "u0074">>,
            remediation |-> (* 确保预定利率符合监管规定 *) <<"u786e", "u4fdd", "u9884", "u5b9a", "u5229", "u7387", "u7b26", "u5408", "u76d1", "u7ba1", "u89c4", "u5b9a">>] >>],
      [category_key |-> (* 预定利率 *) <<"u9884", "u5b9a", "u5229", "u7387">>,
       pattern_dict |-> <<
           [keyword |-> (* 超过 *) <<"u8d85", "u8fc7">>,
            remediation |-> (* 将预定利率调整为监管上限以内 *) <<"u5c06", "u9884", "u5b9a", "u5229", "u7387", "u8c03", "u6574", "u4e3a", "u76d1", "u7ba1", "u4e0a", "u9650", "u4ee5", "u5185">>],
           [keyword |-> (* 超标 *) <<"u8d85", "u6807">>,
            remediation |-> (* 将预定利率调整为监管上限以内 *) <<"u5c06", "u9884", "u5b9a", "u5229", "u7387", "u8c03", "u6574", "u4e3a", "u76d1", "u7ba1", "u4e0a", "u9650", "u4ee5", "u5185">>],
           [keyword |-> (* _default *) <<"u005f", "u0064", "u0065", "u0066", "u0061", "u0075", "u006c", "u0074">>,
            remediation |-> (* 确保预定利率符合监管规定 *) <<"u786e", "u4fdd", "u9884", "u5b9a", "u5229", "u7387", "u7b26", "u5408", "u76d1", "u7ba1", "u89c4", "u5b9a">>] >>],
      [category_key |-> (* 备案 *) <<"u5907", "u6848">>,
       pattern_dict |-> <<
           [keyword |-> (* 不达标 *) <<"u4e0d", "u8fbe", "u6807">>,
            remediation |-> (* 停止销售不达标产品，按规定报送停止使用报告 *) <<"u505c", "u6b62", "u9500", "u552e", "u4e0d", "u8fbe", "u6807", "u4ea7", "u54c1", "uff0c", "u6309", "u89c4", "u5b9a", "u62a5", "u9001", "u505c", "u6b62", "u4f7f", "u7528", "u62a5", "u544a">>],
           [keyword |-> (* 未报送 *) <<"u672a", "u62a5", "u9001">>,
            remediation |-> (* 停止销售不达标产品，按规定报送停止使用报告 *) <<"u505c", "u6b62", "u9500", "u552e", "u4e0d", "u8fbe", "u6807", "u4ea7", "u54c1", "uff0c", "u6309", "u89c4", "u5b9a", "u62a5", "u9001", "u505c", "u6b62", "u4f7f", "u7528", "u62a5", "u544a">>],
           [keyword |-> (* _default *) <<"u005f", "u0064", "u0065", "u0066", "u0061", "u0075", "u006c", "u0074">>,
            remediation |-> (* 完善产品备案管理，确保符合监管要求 *) <<"u5b8c", "u5584", "u4ea7", "u54c1", "u5907", "u6848", "u7ba1", "u7406", "uff0c", "u786e", "u4fdd", "u7b26", "u5408", "u76d1", "u7ba1", "u8981", "u6c42">>] >>],
      [category_key |-> (* 产品设计异化 *) <<"u4ea7", "u54c1", "u8bbe", "u8ba1", "u5f02", "u5316">>,
       pattern_dict |-> <<
           [keyword |-> (* 万能型 *) <<"u4e07", "u80fd", "u578b">>,
            remediation |-> (* 调整产品形态设计，避免异化为万能型产品 *) <<"u8c03", "u6574", "u4ea7", "u54c1", "u5f62", "u6001", "u8bbe", "u8ba1", "uff0c", "u907f", "u514d", "u5f02", "u5316", "u4e3a", "u4e07", "u80fd", "u578b", "u4ea7", "u54c1">>],
           [keyword |-> (* 偏离 *) <<"u504f", "u79bb">>,
            remediation |-> (* 强化风险保障功能，确保符合保险本质 *) <<"u5f3a", "u5316", "u98ce", "u9669", "u4fdd", "u969c", "u529f", "u80fd", "uff0c", "u786e", "u4fdd", "u7b26", "u5408", "u4fdd", "u9669", "u672c", "u8d28">>],
           [keyword |-> (* _default *) <<"u005f", "u0064", "u0065", "u0066", "u0061", "u0075", "u006c", "u0074">>,
            remediation |-> (* 优化产品设计，确保符合保险保障属性 *) <<"u4f18", "u5316", "u4ea7", "u54c1", "u8bbe", "u8ba1", "uff0c", "u786e", "u4fdd", "u7b26", "u5408", "u4fdd", "u9669", "u4fdd", "u969c", "u5c5e", "u6027">>] >>],
      [category_key |-> (* 异化 *) <<"u5f02", "u5316">>,
       pattern_dict |-> <<
           [keyword |-> (* 万能型 *) <<"u4e07", "u80fd", "u578b">>,
            remediation |-> (* 调整产品形态设计，避免异化为万能型产品 *) <<"u8c03", "u6574", "u4ea7", "u54c1", "u5f62", "u6001", "u8bbe", "u8ba1", "uff0c", "u907f", "u514d", "u5f02", "u5316", "u4e3a", "u4e07", "u80fd", "u578b", "u4ea7", "u54c1">>],
           [keyword |-> (* 偏离 *) <<"u504f", "u79bb">>,
            remediation |-> (* 强化风险保障功能，确保符合保险本质 *) <<"u5f3a", "u5316", "u98ce", "u9669", "u4fdd", "u969c", "u529f", "u80fd", "uff0c", "u786e", "u4fdd", "u7b26", "u5408", "u4fdd", "u9669", "u672c", "u8d28">>],
           [keyword |-> (* _default *) <<"u005f", "u0064", "u0065", "u0066", "u0061", "u0075", "u006c", "u0074">>,
            remediation |-> (* 优化产品设计，确保符合保险保障属性 *) <<"u4f18", "u5316", "u4ea7", "u54c1", "u8bbe", "u8ba1", "uff0c", "u786e", "u4fdd", "u7b26", "u5408", "u4fdd", "u9669", "u4fdd", "u969c", "u5c5e", "u6027">>] >>],
      [category_key |-> (* 条款文字 *) <<"u6761", "u6b3e", "u6587", "u5b57">>,
       pattern_dict |-> <<
           [keyword |-> (* _default *) <<"u005f", "u0064", "u0065", "u0066", "u0061", "u0075", "u006c", "u0074">>,
            remediation |-> (* 简化条款表述，使用通俗易懂的语言 *) <<"u7b80", "u5316", "u6761", "u6b3e", "u8868", "u8ff0", "uff0c", "u4f7f", "u7528", "u901a", "u4fd7", "u6613", "u61c2", "u7684", "u8bed", "u8a00">>] >>],
      [category_key |-> (* 冗长 *) <<"u5197", "u957f">>,
       pattern_dict |-> <<
           [keyword |-> (* _default *) <<"u005f", "u0064", "u0065", "u0066", "u0061", "u0075", "u006c", "u0074">>,
            remediation |-> (* 简化条款表述，使用通俗易懂的语言 *) <<"u7b80", "u5316", "u6761", "u6b3e", "u8868", "u8ff0", "uff0c", "u4f7f", "u7528", "u901a", "u4fd7", "u6613", "u61c2", "u7684", "u8bed", "u8a00">>] >>],
      [category_key |-> (* 不易懂 *) <<"u4e0d", "u6613", "u61c2">>,
       pattern_dict |-> <<
           [keyword |-> (* _default *) <<"u005f", "u0064", "u0065", "u0066", "u0061", "u0075", "u006c", "u0074">>,
            remediation |-> (* 简化条款表述，使用通俗易懂的语言 *) <<"u7b80", "u5316", "u6761", "u6b3e", "u8868", "u8ff0", "uff0c", "u4f7f", "u7528", "u901a", "u4fd7", "u6613", "u61c2", "u7684", "u8bed", "u8a00">>] >>],
      [category_key |-> (* 职业 *) <<"u804c", "u4e1a">>,
       pattern_dict |-> <<
           [keyword |-> (* _default *) <<"u005f", "u0064", "u0065", "u0066", "u0061", "u0075", "u006c", "u0074">>,
            remediation |-> (* 明确职业类别要求和限制 *) <<"u660e", "u786e", "u804c", "u4e1a", "u7c7b", "u522b", "u8981", "u6c42", "u548c", "u9650", "u5236">>] >>],
      [category_key |-> (* 类别 *) <<"u7c7b", "u522b">>,
       pattern_dict |-> <<
           [keyword |-> (* _default *) <<"u005f", "u0064", "u0065", "u0066", "u0061", "u0075", "u006c", "u0074">>,
            remediation |-> (* 明确职业类别要求和限制 *) <<"u660e", "u786e", "u804c", "u4e1a", "u7c7b", "u522b", "u8981", "u6c42", "u548c", "u9650", "u5236">>] >>],
      [category_key |-> (* 年龄 *) <<"u5e74", "u9f84">>,
       pattern_dict |-> <<
           [keyword |-> (* _default *) <<"u005f", "u0064", "u0065", "u0066", "u0061", "u0075", "u006c", "u0074">>,
            remediation |-> (* 明确投保年龄范围和要求 *) <<"u660e", "u786e", "u6295", "u4fdd", "u5e74", "u9f84", "u8303", "u56f4", "u548c", "u8981", "u6c42">>] >>],
      [category_key |-> (* 保险期间 *) <<"u4fdd", "u9669", "u671f", "u95f4">>,
       pattern_dict |-> <<
           [keyword |-> (* _default *) <<"u005f", "u0064", "u0065", "u0066", "u0061", "u0075", "u006c", "u0074">>,
            remediation |-> (* 明确保险期间和保障期限 *) <<"u660e", "u786e", "u4fdd", "u9669", "u671f", "u95f4", "u548c", "u4fdd", "u969c", "u671f", "u9650">>] >>],
      [category_key |-> (* 保险期限 *) <<"u4fdd", "u9669", "u671f", "u9650">>,
       pattern_dict |-> <<
           [keyword |-> (* _default *) <<"u005f", "u0064", "u0065", "u0066", "u0061", "u0075", "u006c", "u0074">>,
            remediation |-> (* 明确保险期间和保障期限 *) <<"u660e", "u786e", "u4fdd", "u9669", "u671f", "u95f4", "u548c", "u4fdd", "u969c", "u671f", "u9650">>] >>]
    >>

VAGUE_REMEDIATION_PHRASES ==
    << (* 请根据具体情况 *) <<"u8bf7", "u6839", "u636e", "u5177", "u4f53", "u60c5", "u51b5">>, (* 确保符合 *) <<"u786e", "u4fdd", "u7b26", "u5408">>, (* 无 *) <<"u65e0">>, (* empty *) <<>>, (* 按照《保险法》规定 *) <<"u6309", "u7167", "u300a", "u4fdd", "u9669", "u6cd5", "u300b", "u89c4", "u5b9a">>, (* 建议 *) <<"u5efa", "u8bae">> >>

\* pattern_dict.get('_default', '')
RECURSIVE GetDefault(_, _)
GetDefault(pattern_dict, i) ==
    IF i > Len(pattern_dict) THEN <<>>
    ELSE IF pattern_dict[i].keyword = DefaultKey THEN pattern_dict[i].remediation
    ELSE GetDefault(pattern_dict, i + 1)

\* The inner loop of _find_remediation_by_pattern: the suggestion of the first
\* keyword, other than '_default', that occurs in the description.
RECURSIVE FindKeyword(_, _, _)
FindKeyword(pattern_dict, i, description) ==
    IF i > Len(pattern_dict) THEN GetDefault(pattern_dict, 1)
    ELSE IF pattern_dict[i].keyword = DefaultKey THEN FindKeyword(pattern_dict, i + 1, description)
    ELSE IF IsSubstring(pattern_dict[i].keyword, description) THEN pattern_dict[i].remediation
    ELSE FindKeyword(pattern_dict, i + 1, description)

\* The outer loop of _find_remediation_by_pattern, had it looked for the
\* category key in the description alone.
RECURSIVE FindCategoryInDescription(_, _, _)
FindCategoryInDescription(i, description, category) ==
    IF i > Len(REMEDIATION_PATTERNS) THEN [found |-> FALSE, text |-> <<>>]
    ELSE IF IsSubstring(REMEDIATION_PATTERNS[i].category_key, description)
    THEN [found |-> TRUE,
          text |-> FindKeyword(REMEDIATION_PATTERNS[i].pattern_dict, 1, description)]
    ELSE FindCategoryInDescription(i + 1, description, category)

\* The outer loop of _find_remediation_by_pattern: the first category key that
\* occurs in the description or in the category decides; found = FALSE is None.
RECURSIVE FindCategory(_, _, _)
FindCategory(i, description, category) ==
    IF i > Len(REMEDIATION_PATTERNS) THEN [found |-> FALSE, text |-> <<>>]
    ELSE IF \/ IsSubstring(REMEDIATION_PATTERNS[i].category_key, description)
            \/ IsSubstring(REMEDIATION_PATTERNS[i].category_key, category)
    THEN [found |-> TRUE,
          text |-> FindKeyword(REMEDIATION_PATTERNS[i].pattern_dict, 1, description)]
    ELSE FindCategory(i + 1, description, category)

find_remediation_by_pattern(description, category) == FindCategory(1, description, category)

Comma == (* ， *) <<"uff0c">>

\* description.split('，')[0]
RECURSIVE FirstSegment(_, _)
FirstSegment(s, i) ==
    IF i > Len(s) THEN s
    ELSE IF <<s[i]>> = Comma THEN SubSeq(s, 1, i - 1)
    ELSE FirstSegment(s, i + 1)

SegmentLen == 30

\* The variant that keeps the whole first segment (no [:30]).
get_fallback_remediation_untruncated(description) ==
    IF IsSubstring((* 规定 *) <<"u89c4", "u5b9a">>, description) \/ IsSubstring((* 违反 *) <<"u8fdd", "u53cd">>, description)
    THEN IF IsSubstring(Comma, description)
         THEN (* 针对 *) <<"u9488", "u5bf9">> \o FirstSegment(description, 1) \o (* 问题进行调整 *) <<"u95ee", "u9898", "u8fdb", "u884c", "u8c03", "u6574">>
         ELSE (* 请根据违规描述进行相应调整，确保符合监管要求 *) <<"u8bf7", "u6839", "u636e", "u8fdd", "u89c4", "u63cf", "u8ff0", "u8fdb", "u884c", "u76f8", "u5e94", "u8c03", "u6574", "uff0c", "u786e", "u4fdd", "u7b26", "u5408", "u76d1", "u7ba1", "u8981", "u6c42">>
    ELSE (* 请根据问题描述进行相应调整，确保符合监管要求 *) <<"u8bf7", "u6839", "u636e", "u95ee", "u9898", "u63cf", "u8ff0", "u8fdb", "u884c", "u76f8", "u5e94", "u8c03", "u6574", "uff0c", "u786e", "u4fdd", "u7b26", "u5408", "u76d1", "u7ba1", "u8981", "u6c42">>

get_fallback_remediation(description) ==
    IF IsSubstring((* 规定 *) <<"u89c4", "u5b9a">>, description) \/ IsSubstring((* 违反 *) <<"u8fdd", "u53cd">>, description)
    THEN IF IsSubstring(Comma, description)
         THEN (* 针对 *) <<"u9488", "u5bf9">> \o Prefix(FirstSegment(description, 1), SegmentLen) \o (* 问题进行调整 *) <<"u95ee", "u9898", "u8fdb", "u884c", "u8c03", "u6574">>
         ELSE (* 请根据违规描述进行相应调整，确保符合监管要求 *) <<"u8bf7", "u6839", "u636e", "u8fdd", "u89c4", "u63cf", "u8ff0", "u8fdb", "u884c", "u76f8", "u5e94", "u8c03", "u6574", "uff0c", "u786e", "u4fdd", "u7b26", "u5408", "u76d1", "u7ba1", "u8981", "u6c42">>
    ELSE (* 请根据问题描述进行相应调整，确保符合监管要求 *) <<"u8bf7", "u6839", "u636e", "u95ee", "u9898", "u63cf", "u8ff0", "u8fdb", "u884c", "u76f8", "u5e94", "u8c03", "u6574", "uff0c", "u786e", "u4fdd", "u7b26", "u5408", "u76d1", "u7ba1", "u8981", "u6c42">>

\* any(phrase in default_remediation for phrase in VAGUE_REMEDIATION_PHRASES)
AnyVaguePhraseIn(default_remediation) ==
    \E i \in 1..Len(VAGUE_REMEDIATION_PHRASES) :
        IsSubstring(VAGUE_REMEDIATION_PHRASES[i], default_remediation)

\* ReportGenerator._get_specific_remediation
generator_get_specific_remediation(violation) ==
    IF AnyVaguePhraseIn(violation.remediation)
    THEN LET specific == find_remediation_by_pattern(violation.description, violation.category)
         IN IF specific.found /\ specific.text # <<>> THEN specific.text
            ELSE get_fallback_remediation(violation.description)
    ELSE violation.remediation

\* ------------------------------------ lib/reporting/export/docx_generator.py

\* _DocxGenerator._get_specific_remediation
docx_get_specific_remediation(violation) ==
    LET description == violation.description
        has(s) == IsSubstring(s, description)
    IN IF AnyVaguePhraseIn(violation.remediation)
       THEN IF has((* 等待期 *) <<"u7b49", "u5f85", "u671f">>)
            THEN IF has((* 过长 *) <<"u8fc7", "u957f">>) \/ has((* 超过 *) <<"u8d85", "u8fc7">>) THEN (* 将等待期调整为90天以内 *) <<"u5c06", "u7b49", "u5f85", "u671f", "u8c03", "u6574", "u4e3a", "u0039", "u0030", "u5929", "u4ee5", "u5185">>
                 ELSE IF has((* 症状 *) <<"u75c7", "u72b6">>) \/ has((* 体征 *) <<"u4f53", "u5f81">>)
                      THEN (* 删除将等待期内症状或体征作为免责依据的表述 *) <<"u5220", "u9664", "u5c06", "u7b49", "u5f85", "u671f", "u5185", "u75c7", "u72b6", "u6216", "u4f53", "u5f81", "u4f5c", "u4e3a", "u514d", "u8d23", "u4f9d", "u636e", "u7684", "u8868", "u8ff0">>
                 ELSE IF has((* 突出 *) <<"u7a81", "u51fa">>) THEN (* 在条款中以加粗或红色字体突出说明等待期 *) <<"u5728", "u6761", "u6b3e", "u4e2d", "u4ee5", "u52a0", "u7c97", "u6216", "u7ea2", "u8272", "u5b57", "u4f53", "u7a81", "u51fa", "u8bf4", "u660e", "u7b49", "u5f85", "u671f">>
                 ELSE (* 合理设置等待期长度，确保符合监管规定 *) <<"u5408", "u7406", "u8bbe", "u7f6e", "u7b49", "u5f85", "u671f", "u957f", "u5ea6", "uff0c", "u786e", "u4fdd", "u7b26", "u5408", "u76d1", "u7ba1", "u89c4", "u5b9a">>
            ELSE IF has((* 免责条款 *) <<"u514d", "u8d23", "u6761", "u6b3e">>) \/ has((* 责任免除 *) <<"u8d23", "u4efb", "u514d", "u9664">>)
            THEN IF has((* 不集中 *) <<"u4e0d", "u96c6", "u4e2d">>) THEN (* 将免责条款集中在合同显著位置 *) <<"u5c06", "u514d", "u8d23", "u6761", "u6b3e", "u96c6", "u4e2d", "u5728", "u5408", "u540c", "u663e", "u8457", "u4f4d", "u7f6e">>
                 ELSE IF has((* 不清晰 *) <<"u4e0d", "u6e05", "u6670">>) \/ has((* 表述不清 *) <<"u8868", "u8ff0", "u4e0d", "u6e05">>)
                      THEN (* 使用清晰明确的语言表述免责情形 *) <<"u4f7f", "u7528", "u6e05", "u6670", "u660e", "u786e", "u7684", "u8bed", "u8a00", "u8868", "u8ff0", "u514d", "u8d23", "u60c5", "u5f62">>
                 ELSE IF has((* 加粗 *) <<"u52a0", "u7c97">>) \/ has((* 标红 *) <<"u6807", "u7ea2">>) \/ has((* 突出 *) <<"u7a81", "u51fa">>)
                      THEN (* 使用加粗或红色字体突出显示免责条款 *) <<"u4f7f", "u7528", "u52a0", "u7c97", "u6216", "u7ea2", "u8272", "u5b57", "u4f53", "u7a81", "u51fa", "u663e", "u793a", "u514d", "u8d23", "u6761", "u6b3e">>
                 ELSE IF has((* 免除 *) <<"u514d", "u9664">>) /\ has((* 不合理 *) <<"u4e0d", "u5408", "u7406">>)
                      THEN (* 删除不合理的免责条款，确保不违反保险法规定 *) <<"u5220", "u9664", "u4e0d", "u5408", "u7406", "u7684", "u514d", "u8d23", "u6761", "u6b3e", "uff0c", "u786e", "u4fdd", "u4e0d", "u8fdd", "u53cd", "u4fdd", "u9669", "u6cd5", "u89c4", "u5b9a">>
                 ELSE (* 完善免责条款的表述和展示方式 *) <<"u5b8c", "u5584", "u514d", "u8d23", "u6761", "u6b3e", "u7684", "u8868", "u8ff0", "u548c", "u5c55", "u793a", "u65b9", "u5f0f">>
            ELSE IF has((* 保证收益 *) <<"u4fdd", "u8bc1", "u6536", "u76ca">>) \/ has((* 演示收益 *) <<"u6f14", "u793a", "u6536", "u76ca">>)
            THEN (* 删除保证收益相关表述，改为演示收益或说明利益不确定 *) <<"u5220", "u9664", "u4fdd", "u8bc1", "u6536", "u76ca", "u76f8", "u5173", "u8868", "u8ff0", "uff0c", "u6539", "u4e3a", "u6f14", "u793a", "u6536", "u76ca", "u6216", "u8bf4", "u660e", "u5229", "u76ca", "u4e0d", "u786e", "u5b9a">>
            ELSE IF has((* 费率 *) <<"u8d39", "u7387">>)
            THEN IF has((* 倒算 *) <<"u5012", "u7b97">>) THEN (* 停止使用倒算方式确定费率，采用精算方法 *) <<"u505c", "u6b62", "u4f7f", "u7528", "u5012", "u7b97", "u65b9", "u5f0f", "u786e", "u5b9a", "u8d39", "u7387", "uff0c", "u91c7", "u7528", "u7cbe", "u7b97", "u65b9", "u6cd5">>
                 ELSE IF has((* 偏离实际 *) <<"u504f", "u79bb", "u5b9e", "u9645">>) THEN (* 根据实际费用水平重新核算附加费用率 *) <<"u6839", "u636e", "u5b9e", "u9645", "u8d39", "u7528", "u6c34", "u5e73", "u91cd", "u65b0", "u6838", "u7b97", "u9644", "u52a0", "u8d39", "u7528", "u7387">>
                 ELSE IF has((* 不真实 *) <<"u4e0d", "u771f", "u5b9e">>) \/ has((* 不合理 *) <<"u4e0d", "u5408", "u7406">>)
                      THEN (* 重新进行费率厘定，确保符合审慎原则 *) <<"u91cd", "u65b0", "u8fdb", "u884c", "u8d39", "u7387", "u5398", "u5b9a", "uff0c", "u786e", "u4fdd", "u7b26", "u5408", "u5ba1", "u614e", "u539f", "u5219">>
                 ELSE (* 规范费率厘定方法，确保符合监管要求 *) <<"u89c4", "u8303", "u8d39", "u7387", "u5398", "u5b9a", "u65b9", "u6cd5", "uff0c", "u786e", "u4fdd", "u7b26", "u5408", "u76d1", "u7ba1", "u8981", "u6c42">>
            ELSE IF has((* 现金价值 *) <<"u73b0", "u91d1", "u4ef7", "u503c">>)
            THEN IF has((* 超过 *) <<"u8d85", "u8fc7">>) \/ has((* 异化 *) <<"u5f02", "u5316">>)
                 THEN (* 调整现金价值计算方法，确保不超过已交保费 *) <<"u8c03", "u6574", "u73b0", "u91d1", "u4ef7", "u503c", "u8ba1", "u7b97", "u65b9", "u6cd5", "uff0c", "u786e", "u4fdd", "u4e0d", "u8d85", "u8fc7", "u5df2", "u4ea4", "u4fdd", "u8d39">>
                 ELSE (* 规范现金价值计算，确保符合监管规定 *) <<"u89c4", "u8303", "u73b0", "u91d1", "u4ef7", "u503c", "u8ba1", "u7b97", "uff0c", "u786e", "u4fdd", "u7b26", "u5408", "u76d1", "u7ba1", "u89c4", "u5b9a">>
            ELSE IF has((* 基因 *) <<"u57fa", "u56e0">>) THEN (* 删除根据基因检测结果调节费率的约定 *) <<"u5220", "u9664", "u6839", "u636e", "u57fa", "u56e0", "u68c0", "u6d4b", "u7ed3", "u679c", "u8c03", "u8282", "u8d39", "u7387", "u7684", "u7ea6", "u5b9a">>
            ELSE IF has((* 犹豫期 *) <<"u72b9", "u8c6b", "u671f">>)
            THEN IF has((* 过短 *) <<"u8fc7", "u77ed">>) \/ has((* 不足 *) <<"u4e0d", "u8db3">>) THEN (* 将犹豫期调整为15天以上 *) <<"u5c06", "u72b9", "u8c6b", "u671f", "u8c03", "u6574", "u4e3a", "u0031", "u0035", "u5929", "u4ee5", "u4e0a">>
                 ELSE (* 规范犹豫期的起算和时长 *) <<"u89c4", "u8303", "u72b9", "u8c6b", "u671f", "u7684", "u8d77", "u7b97", "u548c", "u65f6", "u957f">>
            ELSE IF has((* 利率 *) <<"u5229", "u7387">>) \/ has((* 预定利率 *) <<"u9884", "u5b9a", "u5229", "u7387">>)
            THEN IF has((* 超过 *) <<"u8d85", "u8fc7">>) \/ has((* 超标 *) <<"u8d85", "u6807">>) THEN (* 将预定利率调整为监管上限以内 *) <<"u5c06", "u9884", "u5b9a", "u5229", "u7387", "u8c03", "u6574", "u4e3a", "u76d1", "u7ba1", "u4e0a", "u9650", "u4ee5", "u5185">>
                 ELSE (* 确保预定利率符合监管规定 *) <<"u786e", "u4fdd", "u9884", "u5b9a", "u5229", "u7387", "u7b26", "u5408", "u76d1", "u7ba1", "u89c4", "u5b9a">>
            ELSE IF has((* 条款文字 *) <<"u6761", "u6b3e", "u6587", "u5b57">>) \/ has((* 冗长 *) <<"u5197", "u957f">>) \/ has((* 不易懂 *) <<"u4e0d", "u6613", "u61c2">>)
            THEN (* 简化条款表述，使用通俗易懂的语言 *) <<"u7b80", "u5316", "u6761", "u6b3e", "u8868", "u8ff0", "uff0c", "u4f7f", "u7528", "u901a", "u4fd7", "u6613", "u61c2", "u7684", "u8bed", "u8a00">>
            ELSE (* 请根据违规描述进行相应调整，确保符合监管要求 *) <<"u8bf7", "u6839", "u636e", "u8fdd", "u89c4", "u63cf", "u8ff0", "u8fdb", "u884c", "u76f8", "u5e94", "u8c03", "u6574", "uff0c", "u786e", "u4fdd", "u7b26", "u5408", "u76d1", "u7ba1", "u8981", "u6c42">>
       ELSE violation.remediation

\* ------------------------------------ lib/reporting/strategies/remediation

\* A REMEDIATION_MAP: the suggestion of the first entry one of whose keywords
\* occurs in the description; found = FALSE when the loop falls through.
RECURSIVE FirstMapped(_, _, _)
FirstMapped(remediation_map, i, description) ==
    IF i > Len(remediation_map) THEN [found |-> FALSE, text |-> <<>>]
    ELSE IF \E k \in 1..Len(remediation_map[i].keywords) :
                IsSubstring(remediation_map[i].keywords[k], description)
    THEN [found |-> TRUE, text |-> remediation_map[i].remediation]
    ELSE FirstMapped(remediation_map, i + 1, description)

WaitingPeriodMap ==
    << [keywords |-> << (* 过长 *) <<"u8fc7", "u957f">>, (* 超过 *) <<"u8d85", "u8fc7">> >>, remediation |-> (* 将等待期调整为90天以内 *) <<"u5c06", "u7b49", "u5f85", "u671f", "u8c03", "u6574", "u4e3a", "u0039", "u0030", "u5929", "u4ee5", "u5185">>],
       [keywords |-> << (* 症状 *) <<"u75c7", "u72b6">>, (* 体征 *) <<"u4f53", "u5f81">> >>,
        remediation |-> (* 删除将等待期内症状或体征作为免责依据的表述 *) <<"u5220", "u9664", "u5c06", "u7b49", "u5f85", "u671f", "u5185", "u75c7", "u72b6", "u6216", "u4f53", "u5f81", "u4f5c", "u4e3a", "u514d", "u8d23", "u4f9d", "u636e", "u7684", "u8868", "u8ff0">>],
       [keywords |-> << (* 突出 *) <<"u7a81", "u51fa">> >>, remediation |-> (* 在条款中以加粗或红色字体突出说明等待期 *) <<"u5728", "u6761", "u6b3e", "u4e2d", "u4ee5", "u52a0", "u7c97", "u6216", "u7ea2", "u8272", "u5b57", "u4f53", "u7a81", "u51fa", "u8bf4", "u660e", "u7b49", "u5f85", "u671f">>] >>

WaitingPeriodCanHandle(violation) == IsSubstring((* 等待期 *) <<"u7b49", "u5f85", "u671f">>, violation.description)

WaitingPeriodRemediation(violation) ==
    LET m == FirstMapped(WaitingPeriodMap, 1, violation.description)
    IN IF m.found THEN m.text ELSE (* 合理设置等待期长度，确保符合监管规定 *) <<"u5408", "u7406", "u8bbe", "u7f6e", "u7b49", "u5f85", "u671f", "u957f", "u5ea6", "uff0c", "u786e", "u4fdd", "u7b26", "u5408", "u76d1", "u7ba1", "u89c4", "u5b9a">>

ExemptionClauseMap ==
    << [keywords |-> << (* 不集中 *) <<"u4e0d", "u96c6", "u4e2d">> >>, remediation |-> (* 将免责条款集中在合同显著位置 *) <<"u5c06", "u514d", "u8d23", "u6761", "u6b3e", "u96c6", "u4e2d", "u5728", "u5408", "u540c", "u663e", "u8457", "u4f4d", "u7f6e">>],
       [keywords |-> << (* 不清晰 *) <<"u4e0d", "u6e05", "u6670">>, (* 表述不清 *) <<"u8868", "u8ff0", "u4e0d", "u6e05">> >>,
        remediation |-> (* 使用清晰明确的语言表述免责情形 *) <<"u4f7f", "u7528", "u6e05", "u6670", "u660e", "u786e", "u7684", "u8bed", "u8a00", "u8868", "u8ff0", "u514d", "u8d23", "u60c5", "u5f62">>],
       [keywords |-> << (* 加粗 *) <<"u52a0", "u7c97">>, (* 标红 *) <<"u6807", "u7ea2">>, (* 突出 *) <<"u7a81", "u51fa">> >>,
        remediation |-> (* 使用加粗或红色字体突出显示免责条款 *) <<"u4f7f", "u7528", "u52a0", "u7c97", "u6216", "u7ea2", "u8272", "u5b57", "u4f53", "u7a81", "u51fa", "u663e", "u793a", "u514d", "u8d23", "u6761", "u6b3e">>] >>

ExemptionClauseCanHandle(violation) ==
    \/ IsSubstring((* 免责条款 *) <<"u514d", "u8d23", "u6761", "u6b3e">>, violation.description)
    \/ IsSubstring((* 责任免除 *) <<"u8d23", "u4efb", "u514d", "u9664">>, violation.description)

ExemptionClauseRemediation(violation) ==
    LET m == FirstMapped(ExemptionClauseMap, 1, violation.description)
    IN IF m.found THEN m.text
       ELSE IF /\ IsSubstring((* 免除 *) <<"u514d", "u9664">>, violation.description)
               /\ IsSubstring((* 不合理 *) <<"u4e0d", "u5408", "u7406">>, violation.description)
       THEN (* 删除不合理的免责条款，确保不违反保险法规定 *) <<"u5220", "u9664", "u4e0d", "u5408", "u7406", "u7684", "u514d", "u8d23", "u6761", "u6b3e", "uff0c", "u786e", "u4fdd", "u4e0d", "u8fdd", "u53cd", "u4fdd", "u9669", "u6cd5", "u89c4", "u5b9a">>
       ELSE (* 完善免责条款的表述和展示方式 *) <<"u5b8c", "u5584", "u514d", "u8d23", "u6761", "u6b3e", "u7684", "u8868", "u8ff0", "u548c", "u5c55", "u793a", "u65b9", "u5f0f">>

InsuranceAmountMap ==
    << [keywords |-> << (* 不规范 *) <<"u4e0d", "u89c4", "u8303">>, (* 不一致 *) <<"u4e0d", "u4e00", "u81f4">> >>,
        remediation |-> (* 使用规范的保险金额表述，确保与保险法一致 *) <<"u4f7f", "u7528", "u89c4", "u8303", "u7684", "u4fdd", "u9669", "u91d1", "u989d", "u8868", "u8ff0", "uff0c", "u786e", "u4fdd", "u4e0e", "u4fdd", "u9669", "u6cd5", "u4e00", "u81f4">>] >>

InsuranceAmountCanHandle(violation) ==
    \/ IsSubstring((* 保险金额 *) <<"u4fdd", "u9669", "u91d1", "u989d">>, violation.description)
    \/ IsSubstring((* 保险金额 *) <<"u4fdd", "u9669", "u91d1", "u989d">>, violation.category)

InsuranceAmountRemediation(violation) ==
    LET m == FirstMapped(InsuranceAmountMap, 1, violation.description)
    IN IF m.found THEN m.text ELSE (* 明确保险金额的确定方式和计算标准 *) <<"u660e", "u786e", "u4fdd", "u9669", "u91d1", "u989d", "u7684", "u786e", "u5b9a", "u65b9", "u5f0f", "u548c", "u8ba1", "u7b97", "u6807", "u51c6">>

\* RemediationStrategies.get_remediation: find_strategy tries the strategies
\* in the order they were registered.
registry_get_remediation(violation) ==
    IF violation.remediation # <<>> THEN violation.remediation
    ELSE IF WaitingPeriodCanHandle(violation) THEN WaitingPeriodRemediation(violation)
    ELSE IF ExemptionClauseCanHandle(violation) THEN ExemptionClauseRemediation(violation)
    ELSE IF InsuranceAmountCanHandle(violation) THEN InsuranceAmountRemediation(violation)
    ELSE (* 请根据监管要求完善相关条款 *) <<"u8bf7", "u6839", "u636e", "u76d1", "u7ba1", "u8981", "u6c42", "u5b8c", "u5584", "u76f8", "u5173", "u6761", "u6b3e">>

\* ReportGenerationTemplate._get_specific_remediation
template_get_specific_remediation(violation) ==
    IF violation.remediation # <<>> THEN violation.remediation
    ELSE registry_get_remediation(violation)

\* ------------------------------------------ the inputs of the resolvers

RemediationPool ==
    { VAGUE_REMEDIATION_PHRASES[i] : i \in 1..Len(VAGUE_REMEDIATION_PHRASES) }
    \cup { (* 将等待期缩短至60天 *) <<"u5c06", "u7b49", "u5f85", "u671f", "u7f29", "u77ed", "u81f3", "u0036", "u0030", "u5929">>, (* 建议缩短等待期 *) <<"u5efa", "u8bae", "u7f29", "u77ed", "u7b49", "u5f85", "u671f">> }

CategoryPool == { (* empty *) <<>>, (* 产品条款表述 *) <<"u4ea7", "u54c1", "u6761", "u6b3e", "u8868", "u8ff0">>, (* 产品费率厘定及精算假设 *) <<"u4ea7", "u54c1", "u8d39", "u7387", "u5398", "u5b9a", "u53ca", "u7cbe", "u7b97", "u5047", "u8bbe">> }

\* A leading clause longer than SegmentLen characters.
LongFragment == (* 违反 *) <<"u8fdd", "u53cd">> \o [i \in 1..SegmentLen |-> "x"]

FragmentPool ==
    { (* 等待期 *) <<"u7b49", "u5f85", "u671f">>, (* 等待期超过90天 *) <<"u7b49", "u5f85", "u671f", "u8d85", "u8fc7", "u0039", "u0030", "u5929">>, (* 突出 *) <<"u7a81", "u51fa">>, (* 利率 *) <<"u5229", "u7387">>, (* 免责条款 *) <<"u514d", "u8d23", "u6761", "u6b3e">>,
      (* 违反规定 *) <<"u8fdd", "u53cd", "u89c4", "u5b9a">>, (* ， *) <<"uff0c">>, (* 产品 *) <<"u4ea7", "u54c1">>, LongFragment }

RECURSIVE Concat(_, _)
Concat(fs, i) == IF i > Len(fs) THEN <<>> ELSE fs[i] \o Concat(fs, i + 1)

DescriptionPool ==
    UNION { { Concat(fs, 1) : fs \in [1..n -> FragmentPool] } : n \in 0..MaxFragments }

NoText == << "none" >>

RemediationInit ==
    /\ rmViolation \in [remediation : RemediationPool, description : DescriptionPool,
                        category : CategoryPool]
    /\ resolvedBy = "none"
    /\ resolved = NoText

RemediationIdle ==
    /\ rmViolation = [remediation |-> <<>>, description |-> <<>>, category |-> <<>>]
    /\ resolvedBy = "none"
    /\ resolved = NoText

GeneratorResolve ==
    /\ resolvedBy = "none"
    /\ resolved' = generator_get_specific_remediation(rmViolation)
    /\ resolvedBy' = "generator"
    /\ UNCHANGED <<rmViolation, checkVars, scoreVars, pricingVars, auditVars, scoringVars>>

DocxResolve ==
    /\ resolvedBy = "none"
    /\ resolved' = docx_get_specific_remediation(rmViolation)
    /\ resolvedBy' = "docx"
    /\ UNCHANGED <<rmViolation, checkVars, scoreVars, pricingVars, auditVars, scoringVars>>

RegistryResolve ==
    /\ resolvedBy = "none"
    /\ resolved' = registry_get_remediation(rmViolation)
    /\ resolvedBy' = "registry"
    /\ UNCHANGED <<rmViolation, checkVars, scoreVars, pricingVars, auditVars, scoringVars>>

TemplateResolve ==
    /\ resolvedBy = "none"
    /\ resolved' = template_get_specific_remediation(rmViolation)
    /\ resolvedBy' = "template"
    /\ UNCHANGED <<rmViolation, checkVars, scoreVars, pricingVars, auditVars, scoringVars>>

\* ------------------------------------------ scoring.py: pricing analysis
\* A rate is a decimal n * 10^(-e); a parsed value is kept in units of 10^(-8).
\* Python computes the deviation in binary floating point: prErr is the sign
\* of the error of that float against the exact quotient, which decides a
\* comparison or a rounding only where the exact quotient sits on the boundary.

Unit == 10^8

Num(u) == [t |-> "num", u |-> u]
NaN == [t |-> "nan", u |-> 0]
PyNone == [t |-> "None", u |-> 0]

mortality_benchmarks(product_type) ==
    CASE product_type = "life" -> 5 * 10^4
      [] product_type = "health" -> 2 * 10^5
      [] product_type = "accident" -> 1 * 10^5
      [] OTHER -> 1 * 10^5

interest_benchmarks(product_type) ==
    CASE product_type \in {"life", "health", "accident"} -> 35 * 10^5
      [] OTHER -> 30 * 10^5

expense_benchmarks(product_type) ==
    CASE product_type = "life" -> 12 * 10^6
      [] product_type = "health" -> 35 * 10^6
      [] product_type = "accident" -> 25 * 10^6
      [] OTHER -> 20 * 10^6

\* isinstance(rate, (int, float)) / float(rate) / neither: a decimal, nan or None
parse_rate(rate) ==
    IF rate.kind \in {"number", "string"} THEN [t |-> "num", n |-> rate.n, e |-> rate.e]
    ELSE IF rate.kind = "nan" THEN [t |-> "nan", n |-> 0, e |-> 0]
    ELSE [t |-> "None", n |-> 0, e |-> 0]

\* The variant that keeps dividing while the value is above 1.
RECURSIVE normalize_repeatedly(_)
normalize_repeatedly(value) ==
    IF value.t = "num" /\ value.n > 10^value.e
    THEN normalize_repeatedly([value EXCEPT !.e = @ + 2])
    ELSE value

\* if value is not None and value > 1: value = value / 100
normalize(value) ==
    IF value.t = "num" /\ value.n > 10^value.e
    THEN [value EXCEPT !.e = @ + 2]
    ELSE value

ToUnits(value) == value.n * 10^(8 - value.e)

\* The value of a parsed and normalized rate, as the record carries it.
ValueOf(value) == IF value.t = "num" THEN Num(ToUnits(value)) ELSE NaN

\* 'value': rate, the argument itself, in the record of an unparsed rate
Echo(rate) == IF rate.kind = "null" THEN PyNone ELSE [t |-> rate.kind, u |-> 0]

Abs(x) == IF x < 0 THEN 0 - x ELSE x

\* q and r with (q + r / b) = m * 10^k / b, one decimal digit at a time
RECURSIVE LongDivision(_, _, _, _)
LongDivision(q, r, b, k) ==
    IF k = 0 THEN [q |-> q, r |-> r]
    ELSE LongDivision(q * 10 + ((r * 10) \div b), (r * 10) % b, b, k - 1)

\* ((value - benchmark) / benchmark) * 100 if benchmark != 0 else 0, as
\* hundredths of a percent h plus the remainder r / benchmark
Deviation(value, benchmark) ==
    IF value.t = "nan" THEN [nan |-> TRUE, neg |-> FALSE, h |-> 0, r |-> 0, b |-> 1]
    ELSE IF benchmark = 0 THEN [nan |-> FALSE, neg |-> FALSE, h |-> 0, r |-> 0, b |-> 1]
    ELSE LET m == Abs(value.u - benchmark)
             d == LongDivision(m \div benchmark, m % benchmark, benchmark, 4)
         IN [nan |-> FALSE, neg |-> value.u < benchmark, h |-> d.q, r |-> d.r,
             b |-> benchmark]

\* abs(deviation) <= T
AbsLe(deviation, T, err) ==
    /\ ~deviation.nan
    /\ \/ deviation.h < T * 100
       \/ deviation.h = T * 100 /\ deviation.r = 0 /\ err <= 0

\* abs(deviation) > T
AbsGt(deviation, T, err) == ~deviation.nan /\ ~AbsLe(deviation, T, err)

\* round(deviation, 2), in hundredths of a percent
Round2(deviation, err) ==
    IF deviation.nan THEN NaN
    ELSE LET up == \/ 2 * deviation.r > deviation.b
                   \/ /\ 2 * deviation.r = deviation.b
                      /\ \/ err > 0
                         \/ err = 0 /\ deviation.h % 2 = 1
             h == IF up THEN deviation.h + 1 ELSE deviation.h
         IN Num(IF deviation.neg THEN 0 - h ELSE h)

\* value <= benchmark, value > benchmark: False on nan
ValueLe(value, benchmark) == value.t = "num" /\ value.u <= benchmark
ValueGt(value, benchmark) == value.t = "num" /\ value.u > benchmark

PyBool(b) == IF b THEN "True" ELSE "False"

Unparsed(rate, benchmark, note) ==
    [value |-> Echo(rate), benchmark |-> benchmark, deviation |-> PyNone,
     reasonable |-> "None", note |-> note]

\* The variant that tests the rounded deviation of the record.
mortality_is_reasonable_on_rounded(deviation, err) ==
    ~deviation.nan /\ Abs(Round2(deviation, err).u) <= 20 * 100

\* is_reasonable = abs(deviation) <= 20
mortality_is_reasonable(deviation, err) == AbsLe(deviation, 20, err)

analyze_mortality(mortality_rate, product_type, err) ==
    LET benchmark == mortality_benchmarks(product_type)
        parsed == normalize(parse_rate(mortality_rate))
        value == ValueOf(parsed)
        deviation == Deviation(value, benchmark)
        is_reasonable == mortality_is_reasonable(deviation, err)
    IN IF parsed.t = "None"
       THEN Unparsed(mortality_rate, benchmark, (* 无法解析死亡率数值 *) <<"u65e0", "u6cd5", "u89e3", "u6790", "u6b7b", "u4ea1", "u7387", "u6570", "u503c">>)
       ELSE [value |-> value, benchmark |-> benchmark,
             deviation |-> Round2(deviation, err),
             reasonable |-> PyBool(is_reasonable),
             note |-> IF is_reasonable THEN (* 死亡率/发生率符合行业标准 *) <<"u6b7b", "u4ea1", "u7387", "u002f", "u53d1", "u751f", "u7387", "u7b26", "u5408", "u884c", "u4e1a", "u6807", "u51c6">>
                      ELSE (* 死亡率/发生率偏离行业标准 *) <<"u6b7b", "u4ea1", "u7387", "u002f", "u53d1", "u751f", "u7387", "u504f", "u79bb", "u884c", "u4e1a", "u6807", "u51c6">>]

\* The variant without the ceiling.
is_reasonable_within_tolerance(value, benchmark, deviation, T, err) ==
    AbsLe(deviation, T, err)

\* is_reasonable = value <= benchmark and abs(deviation) <= T
is_reasonable_under_ceiling(value, benchmark, deviation, T, err) ==
    ValueLe(value, benchmark) /\ AbsLe(deviation, T, err)

analyze_interest(interest_rate, product_type, err) ==
    LET benchmark == interest_benchmarks(product_type)
        parsed == normalize(parse_rate(interest_rate))
        value == ValueOf(parsed)
        deviation == Deviation(value, benchmark)
    IN IF parsed.t = "None"
       THEN Unparsed(interest_rate, benchmark, (* 无法解析利率数值 *) <<"u65e0", "u6cd5", "u89e3", "u6790", "u5229", "u7387", "u6570", "u503c">>)
       ELSE [value |-> value, benchmark |-> benchmark,
             deviation |-> Round2(deviation, err),
             reasonable |->
                 PyBool(is_reasonable_under_ceiling(value, benchmark, deviation, 10, err)),
             note |-> IF ValueGt(value, benchmark) THEN (* 预定利率超过监管上限 *) <<"u9884", "u5b9a", "u5229", "u7387", "u8d85", "u8fc7", "u76d1", "u7ba1", "u4e0a", "u9650">>
                      ELSE IF AbsGt(deviation, 10, err)
                           THEN (* 预定利率偏离行业标准 *) <<"u9884", "u5b9a", "u5229", "u7387", "u504f", "u79bb", "u884c", "u4e1a", "u6807", "u51c6">>
                      ELSE (* 预定利率符合监管规定 *) <<"u9884", "u5b9a", "u5229", "u7387", "u7b26", "u5408", "u76d1", "u7ba1", "u89c4", "u5b9a">>]

analyze_expense(expense_rate, product_type, err) ==
    LET benchmark == expense_benchmarks(product_type)
        parsed == normalize(parse_rate(expense_rate))
        value == ValueOf(parsed)
        deviation == Deviation(value, benchmark)
    IN IF parsed.t = "None"
       THEN Unparsed(expense_rate, benchmark, (* 无法解析费用率数值 *) <<"u65e0", "u6cd5", "u89e3", "u6790", "u8d39", "u7528", "u7387", "u6570", "u503c">>)
       ELSE [value |-> value, benchmark |-> benchmark,
             deviation |-> Round2(deviation, err),
             reasonable |->
                 PyBool(is_reasonable_under_ceiling(value, benchmark, deviation, 15, err)),
             note |-> IF ValueGt(value, benchmark) THEN (* 费用率超过监管上限 *) <<"u8d39", "u7528", "u7387", "u8d85", "u8fc7", "u76d1", "u7ba1", "u4e0a", "u9650">>
                      ELSE IF AbsGt(deviation, 15, err)
                           THEN (* 费用率偏离行业标准 *) <<"u8d39", "u7528", "u7387", "u504f", "u79bb", "u884c", "u4e1a", "u6807", "u51c6">>
                      ELSE (* 费用率符合监管规定 *) <<"u8d39", "u7528", "u7387", "u7b26", "u5408", "u76d1", "u7ba1", "u89c4", "u5b9a">>]

\* ------------------------------------------------------ pricing inputs

Dec(n, e) == [n |-> n, e |-> e]

\* 0, a negative rate, the benchmarks, rates at and next to the tolerances,
\* rates above a ceiling, and rates in percent form (above 1)
DecimalPool ==
    { Dec(0, 0), Dec(0 - 5, 4), Dec(1, 0),
      Dec(5, 4), Dec(6, 4), Dec(4, 4), Dec(1, 3), Dec(12, 4), Dec(8, 4),
      Dec(120004, 8), Dec(79996, 8), Dec(12001, 7), Dec(2, 3), Dec(240001, 8),
      Dec(35, 3), Dec(3, 2), Dec(315, 4), Dec(27, 3), Dec(351, 4), Dec(2, 2),
      Dec(2, 1), Dec(17, 2), Dec(12, 2), Dec(102, 3), Dec(21, 2), Dec(35, 2),
      Dec(35, 1), Dec(3, 0), Dec(17, 0), Dec(105, 2), Dec(250, 0) }

RatePool ==
    { [kind |-> k, n |-> d.n, e |-> d.e] : k \in {"number", "string"}, d \in DecimalPool }
    \cup { [kind |-> k, n |-> 0, e |-> 0] : k \in {"nan", "text", "null", "other"} }

ProductTypes == {"life", "health", "accident", "unknown"}

NoRecord ==
    [value |-> PyNone, benchmark |-> 0, deviation |-> PyNone, reasonable |-> "None",
     note |-> <<>>]

PricingInit ==
    /\ prInput \in RatePool
    /\ prType \in ProductTypes
    /\ prErr \in {0 - 1, 0, 1}
    /\ analyzedBy = "none"
    /\ prRecord = NoRecord

PricingIdle ==
    /\ prInput = [kind |-> "null", n |-> 0, e |-> 0]
    /\ prType = "unknown"
    /\ prErr = 0
    /\ analyzedBy = "none"
    /\ prRecord = NoRecord

AnalyzeMortality ==
    /\ analyzedBy = "none"
    /\ prRecord' = analyze_mortality(prInput, prType, prErr)
    /\ analyzedBy' = "mortality"
    /\ UNCHANGED <<prInput, prType, prErr, checkVars, scoreVars, remVars, auditVars, scoringVars>>

AnalyzeInterest ==
    /\ analyzedBy = "none"
    /\ prRecord' = analyze_interest(prInput, prType, prErr)
    /\ analyzedBy' = "interest"
    /\ UNCHANGED <<prInput, prType, prErr, checkVars, scoreVars, remVars, auditVars, scoringVars>>

AnalyzeExpense ==
    /\ analyzedBy = "none"
    /\ prRecord' = analyze_expense(prInput, prType, prErr)
    /\ analyzedBy' = "expense"
    /\ UNCHANGED <<prInput, prType, prErr, checkVars, scoreVars, remVars, auditVars, scoringVars>>


\* ------------------------------------- audit.py, preprocess.py: one audit
\* A document is a sequence of blocks separated by blank lines; a block is one
\* line of text, and a heading block is a line that starts a clause
\* (^第...[条章节] followed by more text).

MaxBlocks == 2
MinClauseLen == 10
MinParagraphLen == 20

Pad(n) == [i \in 1..n |-> "z"]

Block(heading, text) == [heading |-> heading, text |-> text]

\* {'text': clause_text, 'reference': current_reference}
ClauseEntry(text) == [kind |-> "dict", hasText |-> TRUE, text |-> text, hasRef |-> TRUE]

\* if len(clause_text) > 10: clauses.append(...)
KeepClause(current) ==
    IF Len(current) > MinClauseLen THEN <<ClauseEntry(current)>> ELSE <<>>

\* The heading pass of extract_clauses: a clause runs from its heading to the
\* line before the next heading; what precedes the first heading is left out.
RECURSIVE HeadedClauses(_, _, _)
HeadedClauses(blocks, i, current) ==
    IF i > Len(blocks) THEN KeepClause(current)
    ELSE IF blocks[i].heading
         THEN KeepClause(current) \o HeadedClauses(blocks, i + 1, blocks[i].text)
    ELSE IF current # <<>>
         THEN HeadedClauses(blocks, i + 1, current \o <<"nl", "nl">> \o blocks[i].text)
    ELSE HeadedClauses(blocks, i + 1, current)

\* The fallback of extract_clauses: content.split('\n\n'), paragraphs above 20
RECURSIVE Paragraphs(_, _)
Paragraphs(blocks, i) ==
    IF i > Len(blocks) THEN <<>>
    ELSE (IF Len(blocks[i].text) > MinParagraphLen
          THEN <<ClauseEntry(blocks[i].text)>> ELSE <<>>) \o Paragraphs(blocks, i + 1)

extract_clauses(blocks) ==
    LET headed == HeadedClauses(blocks, 1, <<>>)
    IN IF headed # <<>> THEN headed ELSE Paragraphs(blocks, 1)

\* scoring.execute: the three analyses of pricing_params. The rates drawn
\* below are away from the tolerances, where the rounding error decides nothing.
PricingOf(pricing_params, product_type) ==
    [mortality |-> analyze_mortality(pricing_params.mortality, product_type, 0),
     interest |-> analyze_interest(pricing_params.interest, product_type, 0),
     expense |-> analyze_expense(pricing_params.expense, product_type, 0)]

\* The variant that raises on a rate it cannot parse.
scoring_execute_rejecting_unparsed(pricing_params, product_type) ==
    [success |-> \A d \in Dims : pricing_params[d].kind \in {"null", "number"},
     pricing |-> PricingOf(pricing_params, product_type)]

\* run_pricing_analysis: scoring.execute raises only without 'pricing_params',
\* which _analyze_pricing always passes.
scoring_execute(pricing_params, product_type) ==
    [success |-> TRUE, pricing |-> PricingOf(pricing_params, product_type)]

\* The arguments of report.calculate_score, from what the two steps returned
ScoredViolations(violations) ==
    [i \in 1..Len(violations) |-> [hasSeverity |-> TRUE, severity |-> violations[i].severity]]

ScoredPricing(pricing) ==
    [empty |-> FALSE, dims |-> [d \in Dims |-> pricing[d].reasonable]]

\* v.get('remediation', '无')[:20] in the tables of high and of medium
\* violations: a TypeError when the rule's remediation column is NULL
report_raises(violations) ==
    \E i \in 1..Len(violations) :
        /\ violations[i].severity \in {"high", "medium"}
        /\ violations[i].remediation = NoneText

\* len([v for v in self.violations if v.get('severity') == sev])
CountExact(violations, sev) ==
    Cardinality({i \in 1..Len(violations) : violations[i].severity = sev})

\* report.generate_summary: violation_severity
generate_summary(violations) ==
    [high |-> CountExact(violations, "high"),
     medium |-> CountExact(violations, "medium"),
     low |-> CountExact(violations, "low")]

NoExport == [given |-> FALSE, success |-> FALSE, pushed |-> FALSE, error |-> "none"]

\* _handle_report_export: None when export is not configured; otherwise what
\* DocxExporter.export returned, or the exception caught around it
handle_report_export(mode) ==
    CASE mode = "disabled" -> NoExport
      [] mode = "exported" ->
             [given |-> TRUE, success |-> TRUE, pushed |-> TRUE, error |-> "none"]
      [] mode = "push_failed" ->
             [given |-> TRUE, success |-> TRUE, pushed |-> FALSE, error |-> "none"]
      [] mode = "export_failed" ->
             [given |-> TRUE, success |-> FALSE, pushed |-> FALSE, error |-> "error"]
      [] OTHER ->
             [given |-> TRUE, success |-> FALSE, pushed |-> FALSE, error |-> "error_type"]

ExportModes == {"disabled", "exported", "push_failed", "export_failed", "export_raised"}

NoContext ==
    [clauses |-> <<>>, violations |-> <<>>, pricing_analysis |-> [d \in Dims |-> NoRecord],
     score |-> 0, grade |-> NoGrade, summary |-> [high |-> 0, medium |-> 0, low |-> 0],
     export_result |-> NoExport]

\* AuditContext.to_result
to_result(context) ==
    [success |-> TRUE,
     violations |-> context.violations,
     violation_count |-> Len(context.violations),
     violation_summary |-> [high |-> CountExact(context.violations, "high"),
                            medium |-> CountExact(context.violations, "medium"),
                            low |-> CountExact(context.violations, "low")],
     pricing |-> context.pricing_analysis,
     score |-> context.score,
     grade |-> context.grade,
     summary |-> context.summary,
     report_export |-> context.export_result]

NoOutcome == [kind |-> "none", error |-> "none", result |-> to_result(NoContext)]

Raised(error) == [kind |-> "raised", error |-> error, result |-> to_result(NoContext)]

\* ------------------------------------------------- the inputs of an audit

\* A clause that names "ab", a heading with too little under it, a paragraph
\* without a heading that names "ab", and a short line.
ArticleOne == (* 第一条 *) <<"u7b2c", "u4e00", "u6761">>

BlockPool ==
    { Block(TRUE, ArticleOne \o <<"a", "b">> \o Pad(MinClauseLen - 4)),
      Block(TRUE, ArticleOne \o <<"a", "b">>),
      Block(FALSE, Pad(MinParagraphLen) \o <<"a", "b">>),
      Block(FALSE, <<"b">>) }

Documents == UNION { [1..n -> BlockPool] : n \in 0..MaxBlocks }

\* What extract_pricing_params leaves in a field: None, the float it parsed,
\* or the matched text that float() refused.
NotFound == [kind |-> "null", n |-> 0, e |-> 0]
Parsed(n, e) == [kind |-> "number", n |-> n, e |-> e]
Unparseable == [kind |-> "text", n |-> 0, e |-> 0]

PricingParams(m, i, x) == [mortality |-> m, interest |-> i, expense |-> x]

PricingParamsPool ==
    { PricingParams(NotFound, NotFound, NotFound),
      PricingParams(Parsed(5, 4), Parsed(35, 1), Parsed(12, 2)),
      PricingParams(Unparseable, Parsed(35, 3), Parsed(12, 2)),
      PricingParams(Parsed(2, 3), Unparseable, Parsed(35, 2)),
      PricingParams(Parsed(5, 4), Parsed(3, 0), Unparseable),
      PricingParams(Unparseable, Unparseable, Unparseable) }

AuditProductTypes == {"life", ""}

\* Rows of negative_list as the audit finds them; remediation may be NULL.
AuditRow(sev, kw, remediation) ==
    [severity |-> sev, keywords |-> Field("list", <<Item(kw)>>), patterns |-> Null,
     remediation |-> remediation]

AuditRowPool ==
    { AuditRow("high", <<"a", "b">>, <<>>),
      AuditRow("high", <<"a", "b">>, NoneText),
      AuditRow("medium", <<"b">>, <<>>),
      AuditRow("low", <<"z", "a">>, <<>>),
      AuditRow("HIGH", <<"b">>, <<>>),
      AuditRow(NullSeverity, <<"a", "b">>, <<>>) }

AuditRuleLists ==
    UNION { { rl \in [1..n -> AuditRowPool] :
                \A j \in 1..(n - 1) :
                    SeverityRank(rl[j].severity) >= SeverityRank(rl[j + 1].severity) }
            : n \in 0..MaxRules }

AuditInit ==
    /\ auDocument \in Documents
    /\ auPricingParams \in PricingParamsPool
    /\ auProductType \in AuditProductTypes
    /\ \E rl \in AuditRuleLists :
           auRules = [j \in 1..Len(rl) |->
                         [Rule(rl[j], j) EXCEPT !.remediation = rl[j].remediation]]
    /\ auStep = "start"
    /\ auContext = NoContext
    /\ auTrace = <<>>
    /\ auStderr = {}
    /\ auOutcome = NoOutcome

AuditIdle ==
    /\ auDocument = <<>>
    /\ auPricingParams = PricingParams(NotFound, NotFound, NotFound)
    /\ auProductType = ""
    /\ auRules = <<>>
    /\ auStep = "idle"
    /\ auContext = NoContext
    /\ auTrace = <<>>
    /\ auStderr = {}
    /\ auOutcome = NoOutcome

\* ------------------------------------------------- the steps of execute

\* if not document_content: raise MissingParameterException
RejectEmptyDocument ==
    /\ auStep = "start"
    /\ auDocument = <<>>
    /\ auStep' = "raised"
    /\ auOutcome' = Raised("MissingParameterException")
    /\ UNCHANGED <<auDocument, auPricingParams, auProductType, auRules, auContext,
                   auTrace, auStderr, checkVars, scoreVars, remVars, pricingVars, scoringVars>>

\* Step 1, _preprocess: the preprocess script exits with 0 and its result, or
\* with another code, which run_preprocess turns into success False.
Preprocess ==
    /\ auStep = "start"
    /\ auDocument # <<>>
    /\ auTrace' = Append(auTrace, "preprocess")
    /\ \E exited \in {"zero", "nonzero"} :
           IF exited = "zero"
           THEN /\ auContext' = [auContext EXCEPT !.clauses = extract_clauses(auDocument)]
                /\ auStep' = "preprocessed"
                /\ auOutcome' = auOutcome
                /\ auStderr' = auStderr
           ELSE /\ auContext' = auContext
                /\ auStep' = "raised"
                /\ auOutcome' = Raised("DocumentPreprocessException")
                /\ auStderr' = auStderr \cup {"Audit failed"}
    /\ UNCHANGED <<auDocument, auPricingParams, auProductType, auRules,
                   checkVars, scoreVars, remVars, pricingVars, scoringVars>>

\* Step 2, _check_violations: run_negative_list_check turns an exception of
\* check.execute into success False, and _run_audit_step raises on that.
CheckViolations ==
    /\ auStep = "preprocessed"
    /\ auTrace' = Append(auTrace, "check")
    /\ LET result == execute(auContext.clauses, auRules)
       IN IF result.status = "ok"
          THEN /\ auContext' = [auContext EXCEPT !.violations = result.violations]
               /\ auStep' = "checked"
               /\ auOutcome' = auOutcome
               /\ auStderr' = auStderr
          ELSE /\ auContext' = auContext
               /\ auStep' = "raised"
               /\ auOutcome' = Raised("NegativeListCheckException")
               /\ auStderr' = auStderr \cup {"Audit failed"}
    /\ UNCHANGED <<auDocument, auPricingParams, auProductType, auRules,
                   checkVars, scoreVars, remVars, pricingVars, scoringVars>>

\* Step 3, _analyze_pricing
AnalyzePricing ==
    /\ auStep = "checked"
    /\ auTrace' = Append(auTrace, "pricing")
    /\ LET result == scoring_execute(auPricingParams, auProductType)
       IN IF result.success
          THEN /\ auContext' = [auContext EXCEPT !.pricing_analysis = result.pricing]
               /\ auStep' = "priced"
               /\ auOutcome' = auOutcome
               /\ auStderr' = auStderr
          ELSE /\ auContext' = auContext
               /\ auStep' = "raised"
               /\ auOutcome' = Raised("PricingAnalysisException")
               /\ auStderr' = auStderr \cup {"Audit failed"}
    /\ UNCHANGED <<auDocument, auPricingParams, auProductType, auRules,
                   checkVars, scoreVars, remVars, pricingVars, scoringVars>>

\* Step 4, _generate_report: report.execute computes score, grade and summary
\* and renders the report; run_report_generation turns an exception of the
\* rendering into success False.
GenerateReport ==
    /\ auStep = "priced"
    /\ auTrace' = Append(auTrace, "report")
    /\ IF report_raises(auContext.violations)
       THEN /\ auContext' = auContext
            /\ auStep' = "raised"
            /\ auOutcome' = Raised("ReportGenerationException")
            /\ auStderr' = auStderr \cup {"Audit failed"}
       ELSE LET s == report_calculate_score(ScoredViolations(auContext.violations),
                                            ScoredPricing(auContext.pricing_analysis))
            IN /\ auContext' = [auContext EXCEPT
                                   !.score = s,
                                   !.grade = report_calculate_grade(s),
                                   !.summary = generate_summary(auContext.violations)]
               /\ auStep' = "reported"
               /\ auOutcome' = auOutcome
               /\ auStderr' = auStderr
    /\ UNCHANGED <<auDocument, auPricingParams, auProductType, auRules,
                   checkVars, scoreVars, remVars, pricingVars, scoringVars>>

\* Step 5, save_audit_record: the insert goes through or fails; a failure is
\* printed to stderr and answered with False, which execute does not read.
SaveAuditRecord ==
    /\ auStep = "reported"
    /\ auTrace' = Append(auTrace, "save")
    /\ \E inserted \in BOOLEAN :
           auStderr' = IF inserted THEN auStderr
                       ELSE auStderr \cup {"Warning: Failed to save audit record"}
    /\ auStep' = "saved"
    /\ UNCHANGED <<auDocument, auPricingParams, auProductType, auRules, auContext,
                   auOutcome, checkVars, scoreVars, remVars, pricingVars, scoringVars>>

\* Step 6, _export_report
ExportReport ==
    /\ auStep = "saved"
    /\ auTrace' = Append(auTrace, "export")
    /\ \E mode \in ExportModes :
           /\ auContext' = [auContext EXCEPT !.export_result = handle_report_export(mode)]
           /\ auStderr' = IF mode \in {"export_failed", "export_raised"}
                          THEN auStderr \cup {"Export failed"}
                          ELSE auStderr
    /\ auStep' = "exported"
    /\ UNCHANGED <<auDocument, auPricingParams, auProductType, auRules,
                   auOutcome, checkVars, scoreVars, remVars, pricingVars, scoringVars>>

\* return context.to_result()
ReturnResult ==
    /\ auStep = "exported"
    /\ auOutcome' = [kind |-> "returned", error |-> "none", result |-> to_result(auContext)]
    /\ auStep' = "returned"
    /\ UNCHANGED <<auDocument, auPricingParams, auProductType, auRules, auContext,
                   auTrace, auStderr, checkVars, scoreVars, remVars, pricingVars, scoringVars>>

\* ----------------------------------------------- scoring.py: execute

NoScoring == [status |-> "none", message |-> "none", analysed |-> {},
              pricing |-> [d \in Dims |-> NoRecord]]

\* The variant that analyses an empty pricing_params when the key is missing.
scoring_validate_leniently(given) == "valid"

\* if 'pricing_params' not in params: raise ValueError
scoring_validate(given) ==
    IF given THEN "valid" ELSE "Missing required parameter: 'pricing_params'"

ScoringInit ==
    /\ \E given \in BOOLEAN, pp \in PricingParamsPool, pt \in AuditProductTypes :
           seParams = [given |-> given,
                       pricing_params |-> IF given THEN pp
                                          ELSE PricingParams(NotFound, NotFound, NotFound),
                       product_type |-> pt]
    /\ seResult = NoScoring

ScoringIdle ==
    /\ seParams = [given |-> FALSE,
                   pricing_params |-> PricingParams(NotFound, NotFound, NotFound),
                   product_type |-> ""]
    /\ seResult = [NoScoring EXCEPT !.status = "idle"]

\* scoring.execute(params): 'success' and 'pricing' of the result; the three
\* analyses run only after the parameter check.
ScoringExecute ==
    /\ seResult.status = "none"
    /\ seResult' =
           IF scoring_validate(seParams.given) # "valid"
           THEN [NoScoring EXCEPT !.status = "raised",
                                  !.message = scoring_validate(seParams.given)]
           ELSE [status |-> "ok", message |-> "none", analysed |-> Dims,
                 pricing |-> PricingOf(seParams.pricing_params, seParams.product_type)]
    /\ UNCHANGED <<seParams, checkVars, scoreVars, remVars, pricingVars, auditVars>>
\* ------------------------------------------------------- specifications

\* The negative-list check: one call of check.execute on the drawn input.
Init == CheckInit /\ ScoreIdle /\ RemediationIdle /\ PricingIdle /\ AuditIdle /\ ScoringIdle

Next == Execute

Spec == Init /\ [][Next]_vars

\* One score calculation on the drawn violations and pricing analysis.
InitScore == CheckIdle /\ ScoreInit /\ RemediationIdle /\ PricingIdle /\ AuditIdle /\ ScoringIdle

NextScore ==
    \/ ReportCalculateScore
    \/ EvaluationCalculateScore
    \/ GeneratorCalculateScore
    \/ TemplateCalculateScore

SpecScore == InitScore /\ [][NextScore]_vars

\* One grade calculation on the drawn score.
InitGrade == CheckIdle /\ GradeInit /\ RemediationIdle /\ PricingIdle /\ AuditIdle /\ ScoringIdle

NextGrade == ReportCalculateGrade \/ EvaluationCalculateGrade

SpecGrade == InitGrade /\ [][NextGrade]_vars

\* One remediation resolver on the drawn violation.
InitRemediation == CheckIdle /\ ScoreIdle /\ RemediationInit /\ PricingIdle /\ AuditIdle /\ ScoringIdle

NextRemediation ==
    \/ GeneratorResolve
    \/ DocxResolve
    \/ RegistryResolve
    \/ TemplateResolve

SpecRemediation == InitRemediation /\ [][NextRemediation]_vars


\* One pricing analyzer on the drawn rate and product type.
InitPricing == CheckIdle /\ ScoreIdle /\ RemediationIdle /\ PricingInit /\ AuditIdle /\ ScoringIdle

NextPricing == AnalyzeMortality \/ AnalyzeInterest \/ AnalyzeExpense

SpecPricing == InitPricing /\ [][NextPricing]_vars


\* One run of audit.execute on the drawn document and rule store.
InitAudit == CheckIdle /\ ScoreIdle /\ RemediationIdle /\ PricingIdle /\ AuditInit /\ ScoringIdle

NextAudit ==
    \/ RejectEmptyDocument
    \/ Preprocess
    \/ CheckViolations
    \/ AnalyzePricing
    \/ GenerateReport
    \/ SaveAuditRecord
    \/ ExportReport
    \/ ReturnResult

SpecAudit == InitAudit /\ [][NextAudit]_vars

\* One call of check.execute or of scoring.execute on the drawn params.
InitValidate ==
    \/ CheckInit /\ ScoreIdle /\ RemediationIdle /\ PricingIdle /\ AuditIdle /\ ScoringIdle
    \/ CheckIdle /\ ScoreIdle /\ RemediationIdle /\ PricingIdle /\ AuditIdle /\ ScoringInit

NextValidate == Execute \/ ScoringExecute

SpecValidate == InitValidate /\ [][NextValidate]_vars

\* The report generators, with the score computed or supplied by the caller.
InitGenerate ==
    \/ CheckIdle /\ GenerateComputedInit /\ RemediationIdle /\ PricingIdle /\ AuditIdle /\ ScoringIdle
    \/ CheckIdle /\ GenerateSuppliedInit /\ RemediationIdle /\ PricingIdle /\ AuditIdle /\ ScoringIdle

NextGenerate == ReportExecute \/ GeneratorGenerate \/ TemplateGenerate

SpecGenerate == InitGenerate /\ [][NextGenerate]_vars
\* ------------------------------------------------------------------ claims

\* What the claims say of a rule and a clause, stated without the loops.
KeywordsOf(rule) ==
    IF rule.keywords.kind \in {"list", "json"} THEN rule.keywords.items ELSE <<>>

PatternsOf(rule) ==
    IF rule.patterns.kind \in {"list", "json"} THEN rule.patterns.items ELSE <<>>

KeywordFires(text, rule) ==
    \E k \in 1..Len(KeywordsOf(rule)) :
        KeywordsOf(rule)[k].t = "str" /\ IsSubstring(KeywordsOf(rule)[k].s, text)

WellFormed(item) == item.t = "str" /\ ParenDepth(item.s, 1, 0) = 0

PatternFires(text, rule) ==
    \E k \in 1..Len(PatternsOf(rule)) :
        WellFormed(PatternsOf(rule)[k]) /\ re_search(PatternsOf(rule)[k].s, text) = "found"

HasMalformedPattern(rule) ==
    \E k \in 1..Len(PatternsOf(rule)) :
        PatternsOf(rule)[k].t = "str" /\ ~WellFormed(PatternsOf(rule)[k])

Scanned(clause) == clause.kind \in {"str", "dict"}

\* The records of the result for clause i (one-based) and rule j.
Records(i, j) ==
    { n \in 1..Len(checkResult.violations) :
        /\ checkResult.violations[n].clause_index = i - 1
        /\ checkResult.violations[n].rule = rules[j].rule_number }

\* C1: after check.execute, every rule with a non-empty keyword list one of
\* whose keywords is a literal, case-sensitive substring of a clause's full
\* text (anywhere in it, also past the 100 characters of the preview) has a
\* record with that clause's index among the violations.
C1_KeywordSubstringFires ==
    checkResult.status = "ok" =>
        \A i \in 1..Len(clauses), j \in 1..Len(rules) :
              ( /\ Scanned(clauses[i])
                /\ KeywordsOf(rules[j]) # <<>>
                /\ KeywordFires(clauses[i].text, rules[j]) )
              => Records(i, j) # {}

C1_Witness ==
    /\ checkResult.status = "ok"
    /\ \E i \in 1..Len(clauses), j \in 1..Len(rules) :
          /\ Len(clauses[i].text) > PreviewLen
          /\ KeywordFires(clauses[i].text, rules[j])
          /\ ~KeywordFires(Prefix(clauses[i].text, PreviewLen), rules[j])
          /\ ~PatternFires(clauses[i].text, rules[j])
          /\ Records(i, j) # {}

\* C2: the violations of check.execute hold exactly one record for each pair
\* of a clause and a rule that fires on the clause's text by keyword or by
\* pattern, none for a pair whose rule does not fire, and no other record;
\* several rules firing on one clause get a record each.
C2_OneRecordPerFiringPair ==
    checkResult.status = "ok" =>
        /\ \A i \in 1..Len(clauses), j \in 1..Len(rules) :
              Cardinality(Records(i, j)) =
                  IF /\ Scanned(clauses[i])
                     /\ \/ KeywordFires(clauses[i].text, rules[j])
                        \/ PatternFires(clauses[i].text, rules[j])
                  THEN 1 ELSE 0
        /\ \A n \in 1..Len(checkResult.violations) :
              \E i \in 1..Len(clauses), j \in 1..Len(rules) : n \in Records(i, j)

C2_Witness ==
    /\ checkResult.status = "ok"
    /\ Len(rules) = 2
    /\ \E i \in 1..Len(clauses) :
          /\ Cardinality(Records(i, 1)) = 1
          /\ Cardinality(Records(i, 2)) = 1
          /\ ~KeywordFires(clauses[i].text, rules[2])
    /\ \E i \in 1..Len(clauses) : Records(i, 1) = {} /\ Records(i, 2) = {}

\* C3: a malformed pattern never makes check.execute raise; for a rule that
\* has one, the rule fires on a clause exactly when one of its keywords or
\* one of its other patterns, before or after the malformed one, matches, and
\* then it has exactly one record for that clause.
C3_MalformedPatternSkipped ==
    /\ checkResult.message # "re.error"
    /\ checkResult.status = "ok" =>
          \A i \in 1..Len(clauses), j \in 1..Len(rules) :
              (Scanned(clauses[i]) /\ HasMalformedPattern(rules[j])) =>
                  Cardinality(Records(i, j)) =
                      IF \/ KeywordFires(clauses[i].text, rules[j])
                         \/ PatternFires(clauses[i].text, rules[j])
                      THEN 1 ELSE 0

C3_Witness ==
    /\ checkResult.status = "ok"
    /\ \E i \in 1..Len(clauses), j \in 1..Len(rules) :
          /\ Scanned(clauses[i])
          /\ \E k \in 1..Len(PatternsOf(rules[j])) :
                /\ PatternsOf(rules[j])[k].t = "str"
                /\ ~WellFormed(PatternsOf(rules[j])[k])
                /\ \E m \in (k + 1)..Len(PatternsOf(rules[j])) :
                      /\ WellFormed(PatternsOf(rules[j])[m])
                      /\ re_search(PatternsOf(rules[j])[m].s, clauses[i].text) = "found"
          /\ ~KeywordFires(clauses[i].text, rules[j])
          /\ Cardinality(Records(i, j)) = 1
    /\ \E i \in 1..Len(clauses), j \in 1..Len(rules) :
          /\ HasMalformedPattern(rules[j])
          /\ KeywordsOf(rules[j]) # <<>>
          /\ KeywordFires(clauses[i].text, rules[j])
          /\ Cardinality(Records(i, j)) = 1

SeverityCount(sev) ==
    Cardinality({ i \in 1..Len(scViolations) :
                    scViolations[i].hasSeverity /\ scViolations[i].severity = sev })

ClampScore(x) == IF x < 0 THEN 0 ELSE IF x > 100 THEN 100 ELSE x

\* The pricing penalty the calculation that ran subtracts.
PricingPenaltyTaken ==
    IF scoredBy = "evaluation" THEN count_pricing_issues(scPricing) * PRICING_ISSUE_PENALTY
    ELSE 10 * CountIsFalse(scPricing)

\* C4: on violations that all carry a severity, the score is 100 less 20 for
\* each 'high', 10 for each 'medium', 5 for each 'low' and nothing for any
\* other severity, less the pricing penalty, clamped to [0,100].
C4_SeverityPenalties ==
    (scoredBy # "none" /\ \A i \in 1..Len(scViolations) : scViolations[i].hasSeverity) =>
        score = ClampScore(100 - 20 * SeverityCount("high") - 10 * SeverityCount("medium")
                               - 5 * SeverityCount("low") - PricingPenaltyTaken)

C4_Witness ==
    /\ scoredBy = "report"
    /\ SeverityCount("high") = 1
    /\ SeverityCount("medium") = 1
    /\ SeverityCount("low") = 1
    /\ SeverityCount("critical") = 1
    /\ Len(scViolations) = 4
    /\ CountIsFalse(scPricing) = 0
    /\ score = 65

\* The penalty of the violations, which the four calculations agree on.
ViolationPenaltyTaken == TableViolationPenalty(scViolations, 1)

\* C5: in every score calculation the pricing penalty is 10 for each dimension
\* whose reasonable is False and 0 for a dimension whose reasonable is None or
\* True.
C5_PricingPenaltyOnlyForFalse ==
    scoredBy # "none" =>
        score = ClampScore(100 - ViolationPenaltyTaken
                               - 10 * Cardinality({ d \in Dims : scPricing.dims[d] = "False" }))

\* C6: calculate_score returns an integer between 0 and 100.
C6_ScoreBounds == scoredBy # "none" => score \in 0..100

C6_Witness ==
    /\ scoredBy = "report"
    /\ score = 0
    /\ 20 * SeverityCount("high") + 10 * Cardinality({ d \in Dims : scPricing.dims[d] = "False" }) > 100

\* C7: the grade is 优秀 from 90 up, 良好 from 75 up to 89, 合格 from 60 up to 74
\* and 不合格 below 60, the thresholds themselves getting the higher grade.
C7_GradeLadder ==
    gradedBy # "none" =>
        /\ (grade = GradeExcellent) = (score >= 90)
        /\ (grade = GradeGood) = (score >= 75 /\ score < 90)
        /\ (grade = GradePass) = (score >= 60 /\ score < 75)
        /\ (grade = GradeFail) = (score < 60)

C7_Witness ==
    /\ gradedBy = "report"
    /\ score = 75
    /\ grade = GradeGood

VagueSet == { VAGUE_REMEDIATION_PHRASES[i] : i \in 1..Len(VAGUE_REMEDIATION_PHRASES) }

\* C8: when the stored remediation is not one of the vague phrases, the
\* resolver returns it verbatim, whatever the description and category.
C8_StoredRemediationVerbatim ==
    (resolvedBy \in {"generator", "docx"} /\ rmViolation.remediation \notin VagueSet) =>
        resolved = rmViolation.remediation

\* C9: when the stored remediation is one of the vague phrases, each resolver
\* returns a non-empty string other than that phrase.
C9_NeverTheVaguePhrase ==
    (resolvedBy \in {"generator", "registry", "template"}
        /\ rmViolation.remediation \in VagueSet) =>
        resolved # <<>> /\ resolved # rmViolation.remediation

\* The category entries whose key occurs in the given texts, and the choice
\* the claim describes among them.
KeyIn(i, text) == IsSubstring(REMEDIATION_PATTERNS[i].category_key, text)

FirstOf(S) == CHOOSE i \in S : \A k \in S : i <= k

SuggestionOf(i, description) ==
    LET pd == REMEDIATION_PATTERNS[i].pattern_dict
        hits == { k \in 1..Len(pd) :
                    pd[k].keyword # DefaultKey /\ IsSubstring(pd[k].keyword, description) }
        dflt == { k \in 1..Len(pd) : pd[k].keyword = DefaultKey }
    IN IF hits # {} THEN pd[FirstOf(hits)].remediation ELSE pd[FirstOf(dflt)].remediation

KeysInDescription ==
    { i \in 1..Len(REMEDIATION_PATTERNS) : KeyIn(i, rmViolation.description) }

KeysInDescriptionOrCategory ==
    { i \in 1..Len(REMEDIATION_PATTERNS) :
        KeyIn(i, rmViolation.description) \/ KeyIn(i, rmViolation.category) }

\* C10 as claimed: with a vague stored remediation, the first category key, in
\* table order, that occurs in the description decides.
C10_FirstCategoryInDescription ==
    (resolvedBy = "generator" /\ rmViolation.remediation \in VagueSet
        /\ KeysInDescription # {}) =>
        resolved = SuggestionOf(FirstOf(KeysInDescription), rmViolation.description)

\* C10 as amended: with a vague stored remediation, the first category key, in
\* table order, that occurs in the description or in the violation's category
\* decides; inside it the first sub-keyword, in table order, that occurs in the
\* description gives the suggestion, and the _default when none occurs.
C10_FirstCategoryInDescriptionOrCategory ==
    (resolvedBy = "generator" /\ rmViolation.remediation \in VagueSet
        /\ KeysInDescriptionOrCategory # {}) =>
        resolved = SuggestionOf(FirstOf(KeysInDescriptionOrCategory), rmViolation.description)

C10_Witness ==
    /\ resolvedBy = "generator"
    /\ rmViolation.remediation \in VagueSet
    /\ KeysInDescription # {}
    /\ FirstOf(KeysInDescriptionOrCategory) < FirstOf(KeysInDescription)
    /\ resolved = SuggestionOf(FirstOf(KeysInDescriptionOrCategory), rmViolation.description)


\* The parts of the fallback suggestion the claim names.
Regulatory(description) ==
    IsSubstring((* 规定 *) <<"u89c4", "u5b9a">>, description) \/ IsSubstring((* 违反 *) <<"u8fdd", "u53cd">>, description)

HasSeparator(description) == \E i \in 1..Len(description) : <<description[i]>> = Comma

LeadingSegment(description) ==
    LET cut == { i \in 1..Len(description) : <<description[i]>> = Comma }
        seg == IF cut = {} THEN Len(description) ELSE FirstOf(cut) - 1
    IN [i \in 1..Min(seg, 30) |-> description[i]]

Templated(description) == (* 针对 *) <<"u9488", "u5bf9">> \o LeadingSegment(description) \o (* 问题进行调整 *) <<"u95ee", "u9898", "u8fdb", "u884c", "u8c03", "u6574">>

GenericViolation == (* 请根据违规描述进行相应调整，确保符合监管要求 *) <<"u8bf7", "u6839", "u636e", "u8fdd", "u89c4", "u63cf", "u8ff0", "u8fdb", "u884c", "u76f8", "u5e94", "u8c03", "u6574", "uff0c", "u786e", "u4fdd", "u7b26", "u5408", "u76d1", "u7ba1", "u8981", "u6c42">>

GenericProblem == (* 请根据问题描述进行相应调整，确保符合监管要求 *) <<"u8bf7", "u6839", "u636e", "u95ee", "u9898", "u63cf", "u8ff0", "u8fdb", "u884c", "u76f8", "u5e94", "u8c03", "u6574", "uff0c", "u786e", "u4fdd", "u7b26", "u5408", "u76d1", "u7ba1", "u8981", "u6c42">>

FallbackTaken ==
    /\ resolvedBy = "generator"
    /\ rmViolation.remediation \in VagueSet
    /\ KeysInDescriptionOrCategory = {}

\* C11 as claimed: with a vague stored remediation and no matching category
\* key, the templated string is returned whenever the description contains
\* '规定' or '违反', and the generic string only when it contains neither.
C11_TemplatedWheneverRegulatory ==
    FallbackTaken =>
        resolved = IF Regulatory(rmViolation.description)
                   THEN Templated(rmViolation.description)
                   ELSE GenericProblem

\* C11 as amended: the templated string (leading segment before the first
\* separator, at most 30 characters) is returned when the description contains
\* '规定' or '违反' and also the separator; a description with '规定' or
\* '违反' but no separator gets the violation-description generic string, and
\* one with neither gets the problem-description generic string.
C11_TemplatedWhenRegulatoryAndSeparated ==
    FallbackTaken =>
        resolved = IF Regulatory(rmViolation.description)
                   THEN IF HasSeparator(rmViolation.description)
                        THEN Templated(rmViolation.description)
                        ELSE GenericViolation
                   ELSE GenericProblem

C11_Witness ==
    /\ FallbackTaken
    /\ Regulatory(rmViolation.description)
    /\ HasSeparator(rmViolation.description)
    /\ Len(FirstSegment(rmViolation.description, 1)) > 30
    /\ Len(resolved) = 2 + 30 + 6
    /\ resolved = Templated(rmViolation.description)

\* ---- pricing analysis: what a record says against the rate it was given
Analyzed == analyzedBy # "none"

ParsedNumber == prInput.kind \in {"number", "string"}

ParsedNaN == prInput.kind = "nan"

Tolerance == [mortality |-> 20, interest |-> 10, expense |-> 15]

\* |value - benchmark| / benchmark * 100 <= T as the program's float
\* arithmetic decides it: exactly on the boundary the sign of the float's
\* error decides.  Every benchmark is a multiple of 100 units.
WithinTolerance(u, b, T) ==
    \/ Abs(u - b) < (T * b) \div 100
    \/ Abs(u - b) = (T * b) \div 100 /\ (u = b \/ prErr <= 0)

\* C12: analyze_interest (T = 10) and analyze_expense (T = 15) return
\* reasonable = True exactly when the normalized value is <= the benchmark and
\* the absolute deviation is <= T; above the benchmark it is always False.
C12_CeilingAndTolerance ==
    (analyzedBy \in {"interest", "expense"}) =>
        /\ ParsedNumber =>
              (prRecord.reasonable = "True" <=>
                  /\ prRecord.value.u <= prRecord.benchmark
                  /\ WithinTolerance(prRecord.value.u, prRecord.benchmark,
                                     Tolerance[analyzedBy]))
        /\ ParsedNumber => prRecord.reasonable \in {"True", "False"}
        /\ ParsedNaN => prRecord.reasonable = "False"

C12_Witness ==
    /\ analyzedBy \in {"interest", "expense"}
    /\ ParsedNumber
    /\ prRecord.value.u > prRecord.benchmark
    /\ Abs(prRecord.deviation.u) < 100
    /\ prRecord.reasonable = "False"

\* C13 as claimed: analyze_mortality returns reasonable = True exactly when
\* the absolute value of the deviation in the record (rounded to 2 decimals)
\* is <= 20.
C13_ReasonableIffRoundedDeviationWithin20 ==
    (analyzedBy = "mortality" /\ ParsedNumber) =>
        (prRecord.reasonable = "True" <=> Abs(prRecord.deviation.u) <= 20 * 100)

\* C13 as amended: analyze_mortality returns reasonable = True exactly when
\* the absolute value of the deviation before rounding is <= 20, above or
\* below the benchmark; the record's deviation is that percentage rounded
\* to 2 decimals, so a record may show 20.0 or -20.0 with reasonable = False.
C13_ReasonableIffUnroundedDeviationWithin20 ==
    (analyzedBy = "mortality" /\ ParsedNumber) =>
        /\ prRecord.reasonable = "True" <=>
              WithinTolerance(prRecord.value.u, prRecord.benchmark, 20)
        /\ prRecord.reasonable = "True" => Abs(prRecord.deviation.u) <= 20 * 100

C13_Witness ==
    /\ analyzedBy = "mortality"
    /\ ParsedNumber
    /\ Abs(prRecord.value.u - prRecord.benchmark) > (20 * prRecord.benchmark) \div 100
    /\ Abs(prRecord.deviation.u) = 20 * 100
    /\ prRecord.reasonable = "False"

ParseFailedNotes ==
    [mortality |-> (* 无法解析死亡率数值 *) <<"u65e0", "u6cd5", "u89e3", "u6790", "u6b7b", "u4ea1", "u7387", "u6570", "u503c">>, interest |-> (* 无法解析利率数值 *) <<"u65e0", "u6cd5", "u89e3", "u6790", "u5229", "u7387", "u6570", "u503c">>,
     expense |-> (* 无法解析费用率数值 *) <<"u65e0", "u6cd5", "u89e3", "u6790", "u8d39", "u7528", "u7387", "u6570", "u503c">>]

\* C14: for an input that is neither a number nor a numeric string, each
\* analyzer returns a record whose value, deviation and reasonable are None
\* and whose note says parsing failed.
C14_UnparsedRecordAllNone ==
    (Analyzed /\ prInput.kind \in {"text", "null", "other"}) =>
        /\ prRecord.value = PyNone
        /\ prRecord.deviation = PyNone
        /\ prRecord.reasonable = "None"
        /\ prRecord.note = ParseFailedNotes[analyzedBy]

\* The value a rate n * 10^(-e) stands for after one normalization, in units.
NormalizedOnce ==
    IF prInput.n > 10^prInput.e
    THEN prInput.n * 10^(6 - prInput.e)
    ELSE prInput.n * 10^(8 - prInput.e)

\* The record's deviation is the percentage of u against b rounded to 2
\* decimals.  Every benchmark is a multiple of 10000 units.
RoundedDeviationOf(u, b, d) ==
    /\ (d < 0) => (u < b)
    /\ (d > 0) => (u > b)
    /\ 2 * Abs(Abs(d) * (b \div 10000) - Abs(u - b)) <= b \div 10000

ReasonableOf(u, b) ==
    /\ WithinTolerance(u, b, Tolerance[analyzedBy])
    /\ analyzedBy \in {"interest", "expense"} => u <= b

\* C15: a parsed value v <= 1 is used unchanged and a parsed value v > 1 is
\* replaced by v / 100 exactly once; the deviation and the reasonableness
\* are computed from, and the record carries, this normalized value.
C15_NormalizedExactlyOnce ==
    (Analyzed /\ ParsedNumber) =>
        /\ prRecord.value = Num(NormalizedOnce)
        /\ RoundedDeviationOf(NormalizedOnce, prRecord.benchmark, prRecord.deviation.u)
        /\ prRecord.reasonable = PyBool(ReasonableOf(NormalizedOnce, prRecord.benchmark))

C15_Witness ==
    /\ Analyzed
    /\ ParsedNumber
    /\ prInput.n > 100 * 10^prInput.e
    /\ prRecord.value = Num(NormalizedOnce)
    /\ prRecord.value.u > Unit

CeilingNotes == [interest |-> (* 预定利率超过监管上限 *) <<"u9884", "u5b9a", "u5229", "u7387", "u8d85", "u8fc7", "u76d1", "u7ba1", "u4e0a", "u9650">>, expense |-> (* 费用率超过监管上限 *) <<"u8d39", "u7528", "u7387", "u8d85", "u8fc7", "u76d1", "u7ba1", "u4e0a", "u9650">>]

DeviatesNotes ==
    [mortality |-> (* 死亡率/发生率偏离行业标准 *) <<"u6b7b", "u4ea1", "u7387", "u002f", "u53d1", "u751f", "u7387", "u504f", "u79bb", "u884c", "u4e1a", "u6807", "u51c6">>, interest |-> (* 预定利率偏离行业标准 *) <<"u9884", "u5b9a", "u5229", "u7387", "u504f", "u79bb", "u884c", "u4e1a", "u6807", "u51c6">>,
     expense |-> (* 费用率偏离行业标准 *) <<"u8d39", "u7528", "u7387", "u504f", "u79bb", "u884c", "u4e1a", "u6807", "u51c6">>]

WithinNormNotes ==
    [mortality |-> (* 死亡率/发生率符合行业标准 *) <<"u6b7b", "u4ea1", "u7387", "u002f", "u53d1", "u751f", "u7387", "u7b26", "u5408", "u884c", "u4e1a", "u6807", "u51c6">>, interest |-> (* 预定利率符合监管规定 *) <<"u9884", "u5b9a", "u5229", "u7387", "u7b26", "u5408", "u76d1", "u7ba1", "u89c4", "u5b9a">>,
     expense |-> (* 费用率符合监管规定 *) <<"u8d39", "u7528", "u7387", "u7b26", "u5408", "u76d1", "u7ba1", "u89c4", "u5b9a">>]

NotesOf(dimension) ==
    { DeviatesNotes[dimension], WithinNormNotes[dimension] }
    \cup (IF dimension \in DOMAIN CeilingNotes THEN {CeilingNotes[dimension]} ELSE {})

\* C16: for each dimension and every parseable value the note is one of the
\* dimension's distinct texts (ceiling exceeded, deviates from the norm, within
\* the norm), and the within-norm note is returned exactly when reasonable is
\* True.
C16_WithinNormNoteIffReasonable ==
    (Analyzed /\ (ParsedNumber \/ ParsedNaN)) =>
        /\ prRecord.note \in NotesOf(analyzedBy)
        /\ prRecord.note = WithinNormNotes[analyzedBy] <=> prRecord.reasonable = "True"

\* ---- check.execute: the summary and the entries that are not clauses
Fires(i, j) ==
    /\ Scanned(clauses[i])
    /\ \/ KeywordFires(ClauseText(clauses[i]), rules[j])
       \/ PatternFires(ClauseText(clauses[i]), rules[j])

ExactCount(sev) ==
    Cardinality({ n \in 1..Len(checkResult.violations) :
                    checkResult.violations[n].severity = sev })

\* C17: in every successful result of check.execute count is the length of
\* the violations list and summary.high, summary.medium and summary.low are
\* the numbers of violations whose severity is exactly 'high', 'medium' and
\* 'low'; a violation with any other severity is counted in no bucket, stays
\* in the list and causes no error.
C17_CountAndExactBuckets ==
    checkResult.status # "none" =>
        /\ checkResult.status = "ok"
        /\ checkResult.count = Len(checkResult.violations)
        /\ \A sev \in {"high", "medium", "low"} : checkResult.summary[sev] = ExactCount(sev)
        /\ \A i \in 1..Len(clauses), j \in 1..Len(rules) :
              (Fires(i, j) /\ rules[j].severity \notin {"high", "medium", "low"}) =>
                  Records(i, j) # {}

\* An entry that is neither a string nor an object with a text field.
NotAClause(clause) == clause.kind = "other" \/ (clause.kind = "dict" /\ ~clause.hasText)

\* C18: an entry of the clause list that is neither a string nor an object
\* with a text field yields no violation and no error, and every other entry
\* is matched against all rules, its violations carrying its position in the
\* original list as clause_index.
C18_NonClauseEntrySkipped ==
    /\ (checkResult.status = "raised" /\ ckLoaded)
           => \E i \in 1..Len(clauses) : ~NotAClause(clauses[i])
    /\ checkResult.status = "ok" =>
          \A i \in 1..Len(clauses), j \in 1..Len(rules) :
              Cardinality(Records(i, j)) =
                  IF ~NotAClause(clauses[i]) /\ Fires(i, j) THEN 1 ELSE 0

\* ------------------------------------------------------------ the audit run

Finished == auStep \in {"returned", "raised"}

\* A heading with at most 10 characters under it, which extract_clauses drops
ShortClause(block) == block.heading /\ Len(block.text) <= MinClauseLen

UnusableInput ==
    \/ \E d \in Dims : auPricingParams[d] = Unparseable
    \/ \E i \in 1..Len(auDocument) : ShortClause(auDocument[i])

Grades == {GradeExcellent, GradeGood, GradePass, GradeFail}

\* C19: a run of audit.execute on a document with a malformed clause or an
\* unparseable pricing parameter fails only for a reason that lies elsewhere
\* (the preprocess script exits with an error, a rule row has a NULL severity
\* or a NULL remediation), never in the pricing step; every other such run
\* returns a result with violation_count, score and grade.
C19_UnusableInputDoesNotFailTheRun ==
    (Finished /\ auDocument # <<>> /\ UnusableInput) =>
        /\ auOutcome.kind = "raised" =>
               \/ auOutcome.error = "DocumentPreprocessException"
               \/ /\ auOutcome.error = "NegativeListCheckException"
                  /\ \E j \in 1..Len(auRules) : auRules[j].severity = NullSeverity
               \/ /\ auOutcome.error = "ReportGenerationException"
                  /\ \E j \in 1..Len(auRules) : auRules[j].remediation = NoneText
        /\ auOutcome.kind = "returned" =>
               /\ auOutcome.result.violation_count = Len(auOutcome.result.violations)
               /\ auOutcome.result.score \in 0..100
               /\ auOutcome.result.grade \in Grades

C19_Witness ==
    /\ auOutcome.kind = "returned"
    /\ \E i \in 1..Len(auDocument) : ShortClause(auDocument[i])
    /\ auPricingParams.mortality = Unparseable
    /\ auOutcome.result.pricing.mortality.reasonable = "None"
    /\ auOutcome.result.violation_count = 1
    /\ auOutcome.result.score = 80

SaveFailed == "Warning: Failed to save audit record" \in auStderr

ExportFailed ==
    /\ auContext.export_result.given
    /\ ~auContext.export_result.success \/ ~auContext.export_result.pushed

\* The collaborator failures a caller can read in the returned result
ReportedFailures(result) ==
    IF result.report_export.given
       /\ (~result.report_export.success \/ ~result.report_export.pushed)
    THEN {"export"} ELSE {}

\* C20: a run that returns after the save or the export failed returns
\* success True with the violations, score and grade of the context, and the
\* failure can be read in the returned result.
C20_CollaboratorFailureReportedInResult ==
    auOutcome.kind = "returned" =>
        /\ auOutcome.result.success
        /\ auOutcome.result.violations = auContext.violations
        /\ auOutcome.result.score = auContext.score
        /\ auOutcome.result.grade = auContext.grade
        /\ ExportFailed => "export" \in ReportedFailures(auOutcome.result)
        /\ SaveFailed => "save" \in ReportedFailures(auOutcome.result)

\* ------------------------------------------------------- input validation

\* C21: check.execute raises on params without 'clauses' or with something
\* else than a list under it, before it loads a rule or matches a clause, and
\* scoring.execute raises on params without 'pricing_params', before it
\* analyses a dimension; neither leaves a partial result, and valid params are
\* not rejected by these checks.
C21_InvalidInputRaisesBeforeAnyWork ==
    /\ checkResult.status # "none" =>
           IF ckParams = "list" THEN ckLoaded
           ELSE /\ checkResult.status = "raised"
                /\ checkResult.message \in {"Missing required parameter: 'clauses'",
                                            "'clauses' must be a list"}
                /\ ~ckLoaded
                /\ checkResult.violations = <<>>
    /\ seResult.status \in {"ok", "raised"} =>
           IF seParams.given THEN seResult.status = "ok" /\ seResult.analysed = Dims
           ELSE /\ seResult.status = "raised"
                /\ seResult.analysed = {}
                /\ \A d \in Dims : seResult.pricing[d] = NoRecord

C21_Witness ==
    /\ ckParams = "notalist"
    /\ Len(rules) = MaxRules
    /\ checkResult.status = "raised"
    /\ checkResult.message = "'clauses' must be a list"
    /\ ~ckLoaded

EmptyRulesMessage == "No negative list rules found in database"

\* C22: with an empty rule list check.execute returns, for every clause list
\* and without raising, no violation, count 0, an all-zero summary and a
\* message that no result of a scan carries.
C22_EmptyRuleListShortCircuits ==
    (ckLoaded /\ checkResult.status # "none") =>
        IF Len(rules) = 0
        THEN /\ checkResult.status = "ok"
             /\ checkResult.violations = <<>>
             /\ checkResult.count = 0
             /\ checkResult.summary = [high |-> 0, medium |-> 0, low |-> 0]
             /\ checkResult.message = EmptyRulesMessage
        ELSE checkResult.message # EmptyRulesMessage

C22_Witness ==
    /\ ckLoaded
    /\ Len(rules) = 0
    /\ Len(clauses) = MaxClauses
    /\ \E i \in 1..Len(clauses) : clauses[i].kind = "dictnull"
    /\ checkResult.status = "ok"
    /\ checkResult.message = EmptyRulesMessage

\* C23: the clause_text of every returned violation has at most 100
\* characters.
C23_PreviewAtMost100 ==
    checkResult.status = "ok" =>
        \A k \in 1..Len(checkResult.violations) :
            Len(checkResult.violations[k].clause_text) <= PreviewLen

\* The position in the rule list of the rule a violation names
RulePosition(violation) ==
    CHOOSE j \in 1..Len(rules) : rules[j].rule_number = violation.rule

\* C24: the returned violations are a function of the clause list and the rule
\* list, and they are ordered by clause index and, within a clause, by the
\* position of the rule in the rule list.
C24_DeterministicAndOrdered ==
    checkResult.status = "ok" =>
        /\ checkResult = execute(clauses, rules)
        /\ \A k, l \in 1..Len(checkResult.violations) :
               k < l =>
                   LET v == checkResult.violations[k]
                       w == checkResult.violations[l]
                   IN \/ v.clause_index < w.clause_index
                      \/ /\ v.clause_index = w.clause_index
                         /\ RulePosition(v) < RulePosition(w)

C24_Witness ==
    /\ checkResult.status = "ok"
    /\ Len(checkResult.violations) = 4
    /\ checkResult.violations[2].clause_index = 0
    /\ checkResult.violations[3].clause_index = 1
    /\ checkResult.violations[1].rule # checkResult.violations[2].rule

Generators == {"report.execute", "ReportGenerator.generate", "ReportGenerationTemplate.generate"}

\* C25: in every result of report.execute, ReportGenerator.generate and
\* ReportGenerationTemplate.generate the score lies in [0,100], whether the
\* score was computed or supplied by the caller.
C25_ScoreAlwaysInRange ==
    gradedBy \in Generators => (score >= 0 /\ score <= 100)

\* What does hold: a computed score is in range, and the template generator
\* brings a supplied score into it.
C25_ComputedOrTemplateInRange ==
    (gradedBy \in Generators
     /\ (scoredBy = "none" \/ gradedBy = "ReportGenerationTemplate.generate"))
        => (score >= 0 /\ score <= 100)

\* The grade ladder: 不合格 < 合格 < 良好 < 优秀
GradeRank(g) ==
    IF g = GradeExcellent THEN 3
    ELSE IF g = GradeGood THEN 2
    ELSE IF g = GradePass THEN 1
    ELSE 0

\* The grade the function that graded this score gives to another score
GradeBySame(s) ==
    IF gradedBy = "report" THEN report_calculate_grade(s) ELSE evaluation_calculate_grade(s)

\* C26: for two scores s1 > s2 the grade of s1 is never worse than the grade of
\* s2, for report.calculate_grade and for lib/evaluation.calculate_grade.
C26_GradeMonotone ==
    gradedBy \in {"report", "evaluation"} =>
        /\ grade \in Grades
        /\ \A s2 \in (0 - GradeSlack)..(100 + GradeSlack) :
               score > s2 => GradeRank(grade) >= GradeRank(GradeBySame(s2))
        /\ \A s1 \in (0 - GradeSlack)..(100 + GradeSlack) :
               s1 > score => GradeRank(GradeBySame(s1)) >= GradeRank(grade)

C26_Witness ==
    /\ gradedBy = "report"
    /\ score = 75
    /\ grade = GradeGood
    /\ GradeRank(report_calculate_grade(74)) < GradeRank(grade)

\* A keywords/patterns value that holds nothing: an empty list, the JSON text
\* of one, NULL, or a text that does not decode.
EmptyField(field_value) ==
    \/ field_value.kind \in {"null", "badjson"}
    \/ field_value.kind \in {"list", "json"} /\ field_value.items = <<>>

EmptyRule(rule) == EmptyField(rule.keywords) /\ EmptyField(rule.patterns)

EmptyFields ==
    {Null, Field("badjson", <<>>), Field("list", <<>>), Field("json", <<>>)}

\* C27: a rule whose keyword list and pattern list are both empty, missing or
\* not decodable never fires: match_rule is False for it on every clause text,
\* and no violation of the result names it.
C27_EmptyRuleNeverFires ==
    /\ \A i \in 1..Len(clauses) : \A kw, pat \in EmptyFields :
           match_rule(ClauseText(clauses[i]),
                      [Rule(Shape("high", kw, pat), 1) EXCEPT !.rule_number = 0]) = "nomatch"
    /\ checkResult.status = "ok" =>
           \A k \in 1..Len(checkResult.violations) :
               \A j \in 1..Len(rules) :
                   rules[j].rule_number = checkResult.violations[k].rule
                       => ~EmptyRule(rules[j])

C27_Witness ==
    /\ checkResult.status = "ok"
    /\ Len(checkResult.violations) > 0
    /\ EmptyRule(rules[1])
    /\ checkResult.violations[1].clause_index = 0
    /\ checkResult.violations[1].rule = 2

\* An entry of the clause list whose text execute can hand to match_rule as a str
ReadableClause(clause) == clause.kind = "str" \/ (clause.kind = "dict")

\* C29: _parse_json_field returns a list for every stored value, and no value
\* of a rule's keywords or patterns makes match_rule raise: a run over
\* readable clauses is not aborted on account of a rule's fields.
C29_RuleFieldsNeverAbortTheScan ==
    (ckLoaded /\ checkResult.status # "none") =>
        /\ \A j \in 1..Len(rules) :
               ParsedIsList(rules[j].keywords) /\ ParsedIsList(rules[j].patterns)
        /\ (\A i \in 1..Len(clauses) : ReadableClause(clauses[i]) \/ clauses[i].kind = "other")
              => checkResult.message # "TypeError"

\* The steps of audit.execute in the order of its try block
StepOrder == <<"preprocess", "check", "pricing", "report", "save", "export">>

\* The exception _run_audit_step raises for a step that reports success False
StepException(step) ==
    CASE step = "preprocess" -> "DocumentPreprocessException"
      [] step = "check" -> "NegativeListCheckException"
      [] step = "pricing" -> "PricingAnalysisException"
      [] step = "report" -> "ReportGenerationException"
      [] OTHER -> "none"

\* The steps started so far are the first ones of StepOrder, in that order; a
\* run that raised after starting a step raised the exception of the last step
\* it started, one of the first four, and started neither save nor export.
StepsInOrderAndGated ==
    /\ Len(auTrace) <= Len(StepOrder)
    /\ \A k \in 1..Len(auTrace) : auTrace[k] = StepOrder[k]
    /\ (auOutcome.kind = "raised" /\ auTrace # <<>>) =>
           /\ Len(auTrace) <= 4
           /\ auOutcome.error = StepException(auTrace[Len(auTrace)])
    /\ (auOutcome.kind = "raised" /\ auTrace = <<>>) =>
           auOutcome.error = "MissingParameterException"

\* C28: audit.execute runs preprocess, check, pricing, report, save, export in
\* this order; a step starts only after the previous one returned success, and
\* a failure of one of the first four raises that step's exception with no
\* later step executed.
C28_StepsInOrderEachAfterSuccess ==
    /\ StepsInOrderAndGated
    /\ Len(auTrace) = 6 => ~SaveFailed

\* A run whose report step failed after three steps went through
StepGateWitness ==
    /\ auOutcome = Raised("ReportGenerationException")
    /\ auTrace = <<"preprocess", "check", "pricing", "report">>
    /\ auStep = "raised"

\* clamp(100 - 20*high - 10*medium - 5*low - 10*pricing_issues, 0, 100)
ScoreOfCounts(counts, pricing_issues) ==
    Max(0, Min(100, 100 - 20 * counts.high - 10 * counts.medium - 5 * counts.low
                      - 10 * pricing_issues))

\* C30: in a returned audit result the summary of check.execute, the summary
\* of report.generate_summary and the violation_summary of the result give the
\* same high/medium/low counts, and the score is the clamp formula on them.
C30_SeverityCountsAgreeAcrossPipeline ==
    auOutcome.kind = "returned" =>
        LET checked == execute(auContext.clauses, auRules)
            issues == CountIsFalse(ScoredPricing(auOutcome.result.pricing))
        IN /\ checked.status = "ok"
           /\ checked.violations = auOutcome.result.violations
           /\ checked.summary = auOutcome.result.summary
           /\ checked.summary = auOutcome.result.violation_summary
           /\ auOutcome.result.score = ScoreOfCounts(checked.summary, issues)

\* What holds: the report's summary, the result's violation_summary and the
\* score agree with one another; they count a severity only when it is spelled
\* in lower case.
ReportAndResultCountsAgree ==
    auOutcome.kind = "returned" =>
        /\ auOutcome.result.summary = auOutcome.result.violation_summary
        /\ auOutcome.result.score =
               ScoreOfCounts(auOutcome.result.summary,
                             CountIsFalse(ScoredPricing(auOutcome.result.pricing)))
=============================================================================
